---- MODULE Spec2Model ----
(***************************************************************************)
(* THREE.VRController (src/resources/VRController.js): the device          *)
(* registry, the capability catalog, the controller adapter (construction, *)
(* pollForChanges, update, haptics) and the poll loop.                     *)
(*                                                                         *)
(* Units.  Axis values, button values and vibration intensities are the    *)
(* JavaScript numbers times ten (0.2 is 2, 1.0 is 10); times are           *)
(* milliseconds.  A JavaScript value that may be undefined is a sequence   *)
(* of length at most one: <<>> is undefined, <<v>> is the number v.        *)
(* Device identifiers and catalog keys are sequences of tokens; a key is   *)
(* a substring of an identifier when it is a contiguous subsequence.       *)
(***************************************************************************)
EXTENDS Integers, Sequences, FiniteSets, TLC

VARIABLES
  gamepads,        \* the host's gamepad slots: slot -> handle, Null or Undefined
  hasGetGamepads,  \* navigator.getGamepads !== undefined
  controllers,     \* THREE.VRController.controllers: slot -> adapter or Undefined
  now,             \* window.performance.now()
  trace,           \* what the last operation dispatched, pulsed and called, in order
  schedulers,      \* the objects setVibe returned that the application still holds
  deck             \* the slide deck of slides.js: its iframes, timers and position

vars == <<gamepads, hasGetGamepads, controllers, now, trace, schedulers, deck>>

\* ------------------------------------------------------------------ bounds

MaxSlots == 2

\* the clock stops at MaxTime milliseconds
MaxTime == 6000

Slots == 0 .. (MaxSlots - 1)

\* the clock of the haptics specifications stops at MaxVibeTime milliseconds
MaxVibeTime == 300

\* the application holds at most MaxSchedulers objects returned by setVibe
MaxSchedulers == 2

\* a held scheduler queues a command only on a channel with fewer than
\* MaxQueue commands
MaxQueue == 2

\* the slide deck has MaxSlides slides and at most MaxTimers timers pending
MaxSlides == 5

MaxTimers == 6

\* ------------------------------------------------------- program constants

axisThreshold == 2

axisPressThreshold == 6

VIBE_TIME_MAX == 5000

ConnectPulseIntensity == 1

ConnectPulseDuration == 300

\* ------------------------------------------------------------ JS values

Null == [kind |-> "null"]

Undefined == [kind |-> "undefined"]

Num(v) == <<v>>

Undef == <<>>

IsNum(o) == Len(o) = 1

Abs(v) == IF v < 0 THEN 0 - v ELSE v

\* arr[k] of a JavaScript array (0-based); undefined past its end
At(arr, k) == IF k >= 0 /\ k < Len(arr) THEN Num(arr[k + 1]) ELSE Undef

\* JavaScript truthiness of a number that may be undefined
Truthy(o) == IsNum(o) /\ o[1] # 0

Ev(slot, type, name, data) == [slot |-> slot, type |-> type, name |-> name, data |-> data]

\* ------------------------------------------------------ capability catalog

NoSchema == [style |-> "undefined"]

DaydreamSchema ==
  [style |-> "daydream", hasAxes |-> TRUE,
   axes |-> << [name |-> "thumbpad", indexes |-> <<0, 1>>] >>,
   buttons |-> << "thumbpad" >>, primary |-> "thumbpad"]

ViveSchema ==
  [style |-> "vive", hasAxes |-> TRUE,
   axes |-> << [name |-> "thumbpad", indexes |-> <<0, 1>>] >>,
   buttons |-> << "thumbpad", "trigger", "grip", "menu" >>, primary |-> "trigger"]

OculusTouchRightSchema ==
  [style |-> "oculus-touch-right", hasAxes |-> TRUE,
   axes |-> << [name |-> "thumbstick", indexes |-> <<0, 1>>] >>,
   buttons |-> << "thumbstick", "trigger", "grip", "A", "B", "thumbrest" >>,
   primary |-> "trigger"]

OculusTouchLeftSchema ==
  [style |-> "oculus-touch-left", hasAxes |-> TRUE,
   axes |-> << [name |-> "thumbstick", indexes |-> <<0, 1>>] >>,
   buttons |-> << "thumbstick", "trigger", "grip", "X", "Y", "thumbrest" >>,
   primary |-> "trigger"]

MicrosoftSchema ==
  [style |-> "microsoft", hasAxes |-> TRUE,
   axes |-> << [name |-> "thumbstick", indexes |-> <<0, 1>>],
               [name |-> "thumbpad", indexes |-> <<2, 3>>] >>,
   buttons |-> << "thumbstick", "trigger", "grip", "menu", "thumbpad" >>,
   primary |-> "trigger"]

GearVRControllerSchema ==
  [style |-> "gearvr-controller", hasAxes |-> TRUE,
   axes |-> << [name |-> "thumbpad", indexes |-> <<0, 1>>] >>,
   buttons |-> << "touchpad", "trigger" >>, primary |-> "touchpad"]

GearVRTouchpadSchema ==
  [style |-> "gearvr-touchpad", hasAxes |-> TRUE,
   axes |-> << [name |-> "thumbpad", indexes |-> <<0, 1>>] >>,
   buttons |-> << "touchpad" >>, primary |-> "touchpad"]

\* the only entry that declares no axes
OculusRemoteSchema ==
  [style |-> "oculus-remote", hasAxes |-> FALSE, axes |-> << >>,
   buttons |-> << "a", "b", "d-up", "d-down", "d-left", "d-right" >>,
   primary |-> "a"]

XboxSchema ==
  [style |-> "xbox", hasAxes |-> TRUE,
   axes |-> << [name |-> "thumbstick-left", indexes |-> <<0, 1>>],
               [name |-> "thumbstick-right", indexes |-> <<2, 3>>] >>,
   buttons |-> << "a", "b", "x", "y", "bumper-left", "bumper-right",
                  "trigger-left", "trigger-right", "select", "start",
                  "thumbstick-left", "thumbstick-right",
                  "d-up", "d-down", "d-left", "d-right" >>,
   primary |-> "a"]

\* the identifiers addSupportedControllers aliases to the xbox entry
xids ==
  << << "Xbox 360 Controller (XInput STANDARD GAMEPAD)" >>,
     << "Xbox One Wired Controller (STANDARD GAMEPAD Vendor: 045e Product: 02dd)" >>,
     << "xinput" >> >>

\* Object.keys( supported ): the literal's keys in definition order, then the
\* aliases in the order addSupportedControllers added them
supportedKeys ==
  << << "Daydream Controller" >>,
     << "OpenVR Gamepad" >>,
     << "Oculus Touch (Right)" >>,
     << "Oculus Touch (Left)" >>,
     << "Spatial Controller (Spatial Interaction Source)" >>,
     << "Gear VR Controller" >>,
     << "Gear VR Touchpad" >>,
     << "Oculus Remote" >>,
     << "xbox" >> >> \o xids

supported(key) ==
  CASE key = << "Daydream Controller" >> -> DaydreamSchema
    [] key = << "OpenVR Gamepad" >> -> ViveSchema
    [] key = << "Oculus Touch (Right)" >> -> OculusTouchRightSchema
    [] key = << "Oculus Touch (Left)" >> -> OculusTouchLeftSchema
    [] key = << "Spatial Controller (Spatial Interaction Source)" >> -> MicrosoftSchema
    [] key = << "Gear VR Controller" >> -> GearVRControllerSchema
    [] key = << "Gear VR Touchpad" >> -> GearVRTouchpadSchema
    [] key = << "Oculus Remote" >> -> OculusRemoteSchema
    [] key = << "xbox" >> -> XboxSchema
    [] \E a \in 1 .. Len(xids) : key = xids[a] -> XboxSchema
    [] OTHER -> NoSchema

\* id.indexOf( key ) >= 0
Contains(id, key) ==
  \E k \in 0 .. (Len(id) - Len(key)) : SubSeq(id, k + 1, k + Len(key)) = key

\* the lookup returning the last key found within the id
getSupportedByIdLast(id) ==
  LET hits == { i \in 1 .. Len(supportedKeys) : Contains(id, supportedKeys[i]) }
  IN IF hits = {} THEN NoSchema
     ELSE supported(supportedKeys[CHOOSE i \in hits : \A j \in hits : i >= j])

\* THREE.VRController.getSupportedById( id )
getSupportedById(id) ==
  LET hits == { i \in 1 .. Len(supportedKeys) : Contains(id, supportedKeys[i]) }
  IN IF hits = {} THEN NoSchema
     ELSE supported(supportedKeys[CHOOSE i \in hits : \A j \in hits : i <= j])

\* every pair taken for a thumbstick
AnyPairName(name) == TRUE

\* axesMap.name.startsWith('thumbstick'), over the names the catalog declares
IsThumbstickName(name) ==
  name \in { "thumbstick", "thumbstick-left", "thumbstick-right" }

\* ------------------------------------------------------------ constructor

filterAxis(v) == IF IsNum(v) /\ Abs(v[1]) > axisThreshold THEN v ELSE Num(0)

\* each axis filtered on its own
FilterEach(axisX, axisY) == << filterAxis(axisX), filterAxis(axisY) >>

\* "only apply filter if both axes are below threshold": the pair rule of the
\* constructor (lines 157-165) and, with the same text, of pollForChanges
\* (lines 362-370)
FilterPair(axisX, axisY) ==
  LET filteredX == filterAxis(axisX)
      filteredY == filterAxis(axisY)
  IN IF filteredX = Num(0) /\ filteredY = Num(0)
     THEN << filteredX, filteredY >>
     ELSE << axisX, axisY >>

NoDpad == [up |-> FALSE, down |-> FALSE, left |-> FALSE, right |-> FALSE]

\* supported.axes.forEach( ... ): one pair per schema entry
SchemaAxes(gamepad, schema) ==
  [ i \in 1 .. Len(schema.axes) |->
      LET axesMap == schema.axes[i]
          axisX == At(gamepad.axes, axesMap.indexes[1])
          axisY == At(gamepad.axes, axesMap.indexes[2])
          isThumbstick == IsThumbstickName(axesMap.name)
      IN [ name |-> axesMap.name,
           indexes |-> axesMap.indexes,
           value |-> IF isThumbstick THEN FilterPair(axisX, axisY)
                     ELSE << axisX, axisY >>,
           isThumbstick |-> isThumbstick,
           dpad |-> NoDpad ] ]

\* for ( i = 0; i < gamepad.axes.length / 2; i++ ): one generic pair per i
GenericAxes(gamepad) ==
  LET n == Cardinality({ i \in 0 .. Len(gamepad.axes) : 2 * i < Len(gamepad.axes) })
  IN [ k \in 1 .. n |->
         LET i == k - 1
         IN [ name |-> "axes_" \o ToString(i + 1),
              indexes |-> << i * 2, i * 2 + 1 >>,
              value |-> << At(gamepad.axes, i * 2), At(gamepad.axes, i * 2 + 1) >>,
              isThumbstick |-> FALSE,
              dpad |-> NoDpad ] ]

CtorAxes(gamepad, schema) ==
  IF schema # NoSchema /\ schema.hasAxes
  THEN SchemaAxes(gamepad, schema)
  ELSE GenericAxes(gamepad)

\* gamepad.buttons.forEach( ... ): button_i for every raw button
DefaultButtons(gamepad) ==
  [ k \in 1 .. Len(gamepad.buttons) |->
      [ name |-> "button_" \o ToString(k - 1),
        value |-> gamepad.buttons[k].value,
        isTouched |-> gamepad.buttons[k].touched,
        isPressed |-> gamepad.buttons[k].pressed,
        isPrimary |-> FALSE ] ]

\* supported.buttons.forEach: buttons[ i ].name = buttonName reads a record the
\* device did not report when the schema names more buttons than it has
ShortOfButtons(gamepad, schema) ==
  schema # NoSchema /\ Len(schema.buttons) > Len(gamepad.buttons)

CtorThrows(gamepad) == ShortOfButtons(gamepad, getSupportedById(gamepad.id))

NamedButtons(gamepad, schema) ==
  [ k \in 1 .. Len(gamepad.buttons) |->
      IF schema # NoSchema /\ k <= Len(schema.buttons)
      THEN [ DefaultButtons(gamepad)[k] EXCEPT !.name = schema.buttons[k] ]
      ELSE DefaultButtons(gamepad)[k] ]

\* a resolution that always takes the first button
ButtonNamePrimaryFirst(gamepad, schema) == "button_0"

\* buttonNamePrimary after lines 230 and 246-248
ButtonNamePrimary(gamepad, schema) ==
  IF schema # NoSchema
  THEN schema.primary
  ELSE IF Len(gamepad.buttons) > 1 THEN "button_1" ELSE "button_0"

\* buttons.byName[ name ]: the last record given that name, 0 when there is none
ByName(buttons, name) ==
  LET hits == { k \in 1 .. Len(buttons) : buttons[k].name = name }
  IN IF hits = {} THEN 0 ELSE CHOOSE k \in hits : \A j \in hits : j <= k

\* if ( buttons.byName[ buttonNamePrimary ] ) ... isPrimary = true
\* no button marked
MarkPrimaryNone(named, p) == named

MarkPrimary(named, p) ==
  [ k \in 1 .. Len(named) |-> [ named[k] EXCEPT !.isPrimary = (k = p) ] ]

CtorButtons(gamepad, schema) ==
  MarkPrimary(NamedButtons(gamepad, schema),
              ByName(NamedButtons(gamepad, schema), ButtonNamePrimary(gamepad, schema)))

Dof(pose) ==
  IF pose.obj = "object"
  THEN 3 * ((IF pose.hasOrientation THEN 1 ELSE 0) + (IF pose.hasPosition THEN 1 ELSE 0))
  ELSE 0

\* the constructor once the schema is looked up
Construct(gamepad, schema) ==
     [ gamepad |-> gamepad.index,
       name |-> gamepad.id,
       style |-> IF schema # NoSchema THEN schema.style ELSE "",
       dof |-> Dof(gamepad.pose),
       hand |-> gamepad.hand,
       axes |-> CtorAxes(gamepad, schema),
       buttons |-> CtorButtons(gamepad, schema),
       buttonNamePrimary |-> ButtonNamePrimary(gamepad, schema),
       vibeChannels |-> << [ name |-> "", intensity |-> 0, queue |-> << >> ] >>,
       intensity |-> 0,
       prior |-> 0,
       lastCommanded |-> Undef,
       hasPosed |-> FALSE,
       visible |-> TRUE,
       head |-> [ position |-> "origin", quaternion |-> [ yaw |-> 0, pitch |-> 0 ] ],
       quaternion |-> "identity",
       position |-> "origin",
       armModel |-> Undefined,
       matrix |-> "identity" ]

\* new THREE.VRController( gamepad ), when it does not throw
VRController(gamepad) == Construct(gamepad, getSupportedById(gamepad.id))

\* --------------------------------------------------------- pollForChanges

RECURSIVE Flatten(_)
Flatten(seqs) == IF seqs = << >> THEN << >> ELSE Head(seqs) \o Flatten(Tail(seqs))

\* for ( d in axisDPad ): insertion order
DpadDirections == << "up", "down", "left", "right" >>

\* !!axisPressed for direction d: up and down read indexes[1], left and right
\* indexes[0]; v > threshold for right and down, v < -threshold for left and up
DpadPressed(d, rawX, rawY) ==
  CASE d = "right" -> rawX > axisPressThreshold
    [] d = "down"  -> rawY > axisPressThreshold
    [] d = "left"  -> rawX < 0 - axisPressThreshold
    [] d = "up"    -> rawY < 0 - axisPressThreshold

\* if ( axis.isPressed !== !!axisPressed ): the notification of one direction
DpadEvent(axis, d, pressed, slot) ==
  IF axis.dpad[d] # pressed
  THEN << Ev(slot, IF pressed THEN "press began" ELSE "press ended",
             axis.name \o " " \o d, << >>) >>
  ELSE << >>

\* the "emulate d-pad with axes" block for one thumbstick pair
PollDpad(axis, rawX, rawY, slot) ==
  [ dpad |-> [ d \in { "up", "down", "left", "right" } |-> DpadPressed(d, rawX, rawY) ],
    ev |-> Flatten([ k \in 1 .. 4 |->
             DpadEvent(axis, DpadDirections[k],
                       DpadPressed(DpadDirections[k], rawX, rawY), slot) ]) ]

\* a delivery that leaves the pair as read
AxesValuesRaw(style, name, axisX, axisY) == << axisX, axisY >>

\* the value delivered with '<name> axes changed'
AxesValues(style, name, axisX, axisY) ==
  IF style = "vive" /\ name = "thumbpad"
  THEN << axisX, 0 - axisY >>
  ELSE << axisX, axisY >>

\* if ( gamepad.axes[ i0 ] && gamepad.axes[ i1 ] )
AxesGuard(raw0, raw1) == Truthy(raw0) /\ Truthy(raw1)

\* if ( axesVal[ 0 ] !== axisX || axesVal[ 1 ] !== axisY ): store and notify
PollAxesValue(axis, pair, style, slot) ==
  IF axis.value[1] # pair[1] \/ axis.value[2] # pair[2]
  THEN [ value |-> pair,
         ev |-> << Ev(slot, "axes changed", axis.name,
                      AxesValues(style, axis.name, pair[1][1], pair[2][1])) >> ]
  ELSE [ value |-> axis.value, ev |-> << >> ]

\* the body of the guarded block, given its two results
PollAxisDone(axis, val, dp) ==
  [ axis |-> [ axis EXCEPT !.value = val.value, !.dpad = dp.dpad ],
    ev |-> val.ev \o dp.ev ]

\* one iteration of the "update axes" loop
PollAxis(axis, gamepad, style, slot) ==
  IF AxesGuard(At(gamepad.axes, axis.indexes[1]), At(gamepad.axes, axis.indexes[2]))
  THEN PollAxisDone(axis,
         PollAxesValue(axis,
           IF axis.isThumbstick
           THEN FilterPair(At(gamepad.axes, axis.indexes[1]), At(gamepad.axes, axis.indexes[2]))
           ELSE << At(gamepad.axes, axis.indexes[1]), At(gamepad.axes, axis.indexes[2]) >>,
           style, slot),
         IF axis.isThumbstick
         THEN PollDpad(axis, gamepad.axes[axis.indexes[1] + 1],
                       gamepad.axes[axis.indexes[2] + 1], slot)
         ELSE [ dpad |-> axis.dpad, ev |-> << >> ])
  ELSE [ axis |-> axis, ev |-> << >> ]

\* if ( isPrimary ) controller.dispatchEvent({ type: 'primary ...' })
\* every notification of a button repeated as 'primary ...'
MirrorAlways(button, type, data, slot) == << Ev(slot, type, "primary", data) >>

\* if( isPrimary ) controller.dispatchEvent({ type: 'primary ...' })
Mirror(button, type, data, slot) ==
  IF button.isPrimary THEN << Ev(slot, type, "primary", data) >> ELSE << >>

\* a comparison that reports a value without remembering it
PollButtonStale(button, raw, slot) ==
  [ button |-> button,
    ev |-> IF button.value # raw.value
           THEN << Ev(slot, "value changed", button.name, << raw.value >>) >>
           ELSE << >> ]

\* one iteration of buttons.forEach: three independent comparisons
PollButton(button, raw, slot) ==
  [ button |-> [ button EXCEPT !.value = raw.value,
                               !.isTouched = raw.touched,
                               !.isPressed = raw.pressed ],
    ev |-> (IF button.value # raw.value
            THEN << Ev(slot, "value changed", button.name, << raw.value >>) >>
                 \o Mirror(button, "value changed", << raw.value >>, slot)
            ELSE << >>)
        \o (IF button.isTouched # raw.touched
            THEN << Ev(slot, IF raw.touched THEN "touch began" ELSE "touch ended",
                       button.name, << >>) >>
                 \o Mirror(button, IF raw.touched THEN "touch began" ELSE "touch ended",
                           << >>, slot)
            ELSE << >>)
        \o (IF button.isPressed # raw.pressed
            THEN << Ev(slot, IF raw.pressed THEN "press began" ELSE "press ended",
                       button.name, << >>) >>
                 \o Mirror(button, IF raw.pressed THEN "press began" ELSE "press ended",
                           << >>, slot)
            ELSE << >>) ]

\* if ( hand !== controller.gamepad.hand )
\* this.getHand: the hand last seen by pollForChanges
getHand(c) == c.hand

\* the notification carrying the hand the adapter had seen before
PollHandOld(c, gamepad, slot) ==
  IF c.hand # gamepad.hand
  THEN << Ev(slot, "hand changed", "", << c.hand >>) >>
  ELSE << >>

PollHand(c, gamepad, slot) ==
  IF c.hand # gamepad.hand
  THEN << Ev(slot, "hand changed", "", << gamepad.hand >>) >>
  ELSE << >>

\* pollForChanges, given the result of every loop iteration
PollDone(c, gamepad, slot, ax, bt) ==
  [ c |-> [ c EXCEPT !.hand = gamepad.hand,
                     !.axes = [ i \in 1 .. Len(c.axes) |-> ax[i].axis ],
                     !.buttons = [ k \in 1 .. Len(c.buttons) |-> bt[k].button ] ],
    ev |-> PollHand(c, gamepad, slot)
           \o Flatten([ i \in 1 .. Len(c.axes) |-> ax[i].ev ])
           \o Flatten([ k \in 1 .. Len(c.buttons) |-> bt[k].ev ]) ]

\* controller.pollForChanges(): hand, then the axis pairs, then the buttons
pollForChanges(c, gamepad, slot) ==
  PollDone(c, gamepad, slot,
    [ i \in 1 .. Len(c.axes) |-> PollAxis(c.axes[i], gamepad, c.style, slot) ],
    [ k \in 1 .. Len(c.buttons) |-> PollButton(c.buttons[k], gamepad.buttons[k], slot) ])

\* ----------------------------------------------------------------- haptics

\* a loop that also applies the command whose time is now
RECURSIVE RenderChannelEager(_, _)
RenderChannelEager(channel, t) ==
  IF channel.queue # << >> /\ t >= Head(channel.queue)[1]
  THEN RenderChannelEager([ channel EXCEPT !.intensity = Head(channel.queue)[2],
                                           !.queue = Tail(channel.queue) ], t)
  ELSE channel

\* ---------------------------------------------------------------- getters
\* an argument is [ kind, name, index ]: kind "undefined" for no argument,
\* "string" for a name, "number" for an index; a call gives
\* [ threw, value ]

Returned(value) == [ threw |-> FALSE, value |-> value ]

ReferenceError == [ threw |-> TRUE, value |-> Undefined ]

\* this.getAxes = function( index ): its first test reads nameOrIndex, an
\* identifier that is neither a parameter nor declared anywhere
getAxes(c, index) == ReferenceError

\* this.getButton = function( nameOrIndex )
getButton(c, nameOrIndex) ==
  IF nameOrIndex.kind = "string"
  THEN LET name == IF nameOrIndex.name = "primary" THEN c.buttonNamePrimary
                   ELSE nameOrIndex.name
       IN Returned(IF ByName(c.buttons, name) # 0
                   THEN c.buttons[ByName(c.buttons, name)]
                   ELSE Undefined)
  ELSE IF nameOrIndex.kind = "number"
       THEN Returned(IF nameOrIndex.index < Len(c.buttons)
                     THEN c.buttons[nameOrIndex.index + 1]
                     ELSE Undefined)
       ELSE Returned(Undefined)

\* an if in place of the while: at most one command applied per call
RenderChannelOnce(channel, t) ==
  IF channel.queue # << >> /\ t > Head(channel.queue)[1]
  THEN [ channel EXCEPT !.intensity = Head(channel.queue)[2],
                        !.queue = Tail(channel.queue) ]
  ELSE channel

\* while ( channel.length && now > channel[ 0 ][ 0 ] ): apply and shift
RECURSIVE RenderChannel(_, _)
RenderChannel(channel, t) ==
  IF channel.queue # << >> /\ t > Head(channel.queue)[1]
  THEN RenderChannel([ channel EXCEPT !.intensity = Head(channel.queue)[2],
                                      !.queue = Tail(channel.queue) ], t)
  ELSE channel

RECURSIVE SumIntensity(_)
SumIntensity(channels) ==
  IF channels = << >> THEN 0 ELSE Head(channels).intensity + SumIntensity(Tail(channels))

Min(a, b) == IF a < b THEN a ELSE b

Max(a, b) == IF a > b THEN a ELSE b

\* the sum as it is
PlainSum(sum) == sum

\* Math.min( 1, Math.max( 0, sum ))
ClampSum(sum) == Min(10, Max(0, sum))

\* the second half of renderVibes: sum, clamp, store
RenderSum(c, channels) ==
  [ c EXCEPT !.vibeChannels = channels,
             !.intensity = ClampSum(SumIntensity(channels)) ]

\* controller.renderVibes() at time t: the adapter afterwards; the value
\* returned is its intensity
renderVibes(c, t) ==
  RenderSum(c, [ k \in 1 .. Len(c.vibeChannels) |-> RenderChannel(c.vibeChannels[k], t) ])

\* gamepad.hapticActuators && gamepad.hapticActuators[ 0 ]
\* every device taken to have an actuator
AlwaysActuator(gamepad) == TRUE

\* this.gamepad.hapticActuators && this.gamepad.hapticActuators[ 0 ]
HasActuator(gamepad) == gamepad.hapticActuators > 0

\* a pulse taken never to run out
PulseNever(c, t) == FALSE

\* a pulse renewed only once its whole duration is over
PulseLate(c, t) ==
  IsNum(c.lastCommanded) /\ t - c.lastCommanded[1] > VIBE_TIME_MAX

\* now - lastCommanded > VIBE_TIME_MAX / 2; false while lastCommanded is undefined
PulseExpiring(c, t) ==
  IsNum(c.lastCommanded) /\ 2 * (t - c.lastCommanded[1]) > VIBE_TIME_MAX

\* applyVibes after renderVibes returned: r is the rendered adapter
ApplyRendered(r, t, slot) ==
  IF r.intensity # r.prior \/ PulseExpiring(r, t)
  THEN [ c |-> [ r EXCEPT !.lastCommanded = Num(t), !.prior = r.intensity ],
         ev |-> << Ev(slot, "call", "renderVibes", << r.intensity >>),
                   Ev(slot, "pulse", "", << r.intensity, VIBE_TIME_MAX >>) >> ]
  ELSE [ c |-> r, ev |-> << Ev(slot, "call", "renderVibes", << r.intensity >>) >> ]

\* controller.applyVibes() at time t
applyVibes(c, gamepad, t, slot) ==
  IF HasActuator(gamepad)
  THEN ApplyRendered(renderVibes(c, t), t, slot)
  ELSE [ c |-> c, ev |-> << >> ]

\* ------------------------------------------------------------ arm model
\* an orientation is a rotation about the vertical axis, held as its angle in
\* hundredths of a radian; the orientation of the head has a pitch as well;
\* times are in milliseconds, null is << >>

\* 0.61 rad/s, in hundredths
MIN_ANGULAR_SPEED == 61

\* ( new THREE.Quaternion() ).fromArray( pose.orientation )
fromArray(orientation) ==
  CASE orientation = "value" -> 100
    [] orientation = "turned" -> 200
    [] OTHER -> 0

\* what the estimate of the position is computed from: elbow, wrist and
\* extension depend on the head position, the controller orientation and the
\* root orientation only
ArmPosition(headPos, controllerQ, rootQ) ==
  [ headPos |-> headPos, controllerQ |-> controllerQ, rootQ |-> rootQ ]

\* new OrientationArmModel()
OrientationArmModel ==
  [ controllerQ |-> 0,
    lastControllerQ |-> 0,
    headQ |-> [ yaw |-> 0, pitch |-> 0 ],
    headPos |-> "origin",
    time |-> << >>,
    lastTime |-> << >>,
    rootQ |-> 0,
    pose |-> [ orientation |-> 0, position |-> ArmPosition("origin", 0, 0) ] ]

setControllerOrientation(m, quaternion) ==
  [ m EXCEPT !.lastControllerQ = m.controllerQ, !.controllerQ = quaternion ]

setHeadOrientation(m, quaternion) == [ m EXCEPT !.headQ = quaternion ]

setHeadPosition(m, position) == [ m EXCEPT !.headPos = position ]

\* pitch and roll of the head set to 0
getHeadYawOrientation_(m) == m.headQ.yaw

\* the angle between the forward vectors of two orientations
quatAngle_(q1, q2) == Abs(q1 - q2)

\* this.time - this.lastTime, in which null counts as 0
TimeDelta(m, t) == IF m.lastTime = << >> THEN t ELSE t - m.lastTime[1]

\* angleDelta / timeDelta > MIN_ANGULAR_SPEED: a division by 0 gives Infinity
\* for a positive angle and NaN, which compares false, for 0
IsTurningFast(m, t) ==
  1000 * quatAngle_(m.lastControllerQ, m.controllerQ) > MIN_ANGULAR_SPEED * TimeDelta(m, t)

\* this.rootQ.slerp( headYawQ, angleDelta / 10 )
Slerp(q, target, angleDelta) == q + ((target - q) * angleDelta) \div 1000

\* the root orientation after the update
RootQ(m, t) ==
  IF IsTurningFast(m, t)
  THEN Slerp(m.rootQ, getHeadYawOrientation_(m), quatAngle_(m.lastControllerQ, m.controllerQ))
  ELSE getHeadYawOrientation_(m)

\* OrientationArmModel.prototype.update at time t
ArmUpdate(m, t) ==
  [ m EXCEPT !.time = Num(t),
             !.lastTime = Num(t),
             !.rootQ = RootQ(m, t),
             !.pose = [ orientation |-> m.controllerQ,
                        position |-> ArmPosition(m.headPos, m.controllerQ, RootQ(m, t)) ] ]

\* an adapter that makes a new arm model whenever it needs one
ArmOfFresh(c) == OrientationArmModel

\* if ( this.armModel === undefined ) this.armModel = new OrientationArmModel()
ArmOf(c) == IF c.armModel = Undefined THEN OrientationArmModel ELSE c.armModel

\* the three setters as update calls them
ArmFed(m, head, orientation) ==
  setControllerOrientation(
    setHeadOrientation(setHeadPosition(m, head.position), head.quaternion),
    fromArray(orientation))

\* the arm model of the adapter after the branch without a position
ArmPosed(c, pose, t) == ArmUpdate(ArmFed(ArmOf(c), c.head, pose.orientation), t)

\* ------------------------------------------------------- adapter update

\* pose === null || pose === undefined ||
\* ( pose.orientation === null && pose.position === null )
PoseAbsent(pose) ==
  \/ pose.obj # "object"
  \/ pose.orientation = "null" /\ pose.position = "null"

\* quaternion.fromArray / position.fromArray of an undefined array
PoseThrows(pose) ==
  \/ pose.orientation = "undefined"
  \/ pose.position = "undefined"

\* if ( this.hasPosed !== true ): hasPosed and visible
MarkPosed(c) ==
  [ c EXCEPT !.hasPosed = TRUE, !.visible = IF c.hasPosed THEN @ ELSE TRUE ]

\* if ( pose.orientation !== null ) this.quaternion.fromArray( pose.orientation )
Rotated(c, pose) ==
  IF pose.orientation # "null" THEN [ c EXCEPT !.quaternion = pose.orientation ] ELSE c

\* the update with the assignment of line 515 in force:
\* this.dof = ( +gamepad.pose.hasOrientation + +gamepad.pose.hasPosition ) * 3
ApplyPoseDof(c, pose, t) ==
  IF pose.orientation = "undefined" THEN [ MarkPosed(c) EXCEPT !.dof = Dof(pose) ]
  ELSE IF pose.position = "undefined"
       THEN [ Rotated(MarkPosed(c), pose) EXCEPT !.dof = Dof(pose) ]
  ELSE IF pose.position # "null"
       THEN [ Rotated(MarkPosed(c), pose) EXCEPT
                !.dof = Dof(pose), !.position = pose.position, !.matrix = "pose" ]
       ELSE [ Rotated(MarkPosed(c), pose) EXCEPT
                !.dof = Dof(pose), !.armModel = ArmPosed(c, pose, t), !.matrix = "armModel" ]

\* everything after the early return: hasPosed, visible, rotation, position or
\* arm model, local transform
\* an update that leaves the arm model to adapters of three degrees of freedom
ApplyPoseThreeDof(c, pose, t) ==
  IF pose.orientation = "undefined" THEN MarkPosed(c)
  ELSE IF pose.position = "undefined" THEN Rotated(MarkPosed(c), pose)
  ELSE IF pose.position # "null"
       THEN [ Rotated(MarkPosed(c), pose) EXCEPT !.position = pose.position, !.matrix = "pose" ]
  ELSE IF c.dof = 3
       THEN [ Rotated(MarkPosed(c), pose) EXCEPT
                !.armModel = ArmPosed(c, pose, t), !.matrix = "armModel" ]
       ELSE Rotated(MarkPosed(c), pose)

\* fromArray of an undefined orientation throws before the rotation is set,
\* of an undefined position after it
ApplyPose(c, pose, t) ==
  IF pose.orientation = "undefined" THEN MarkPosed(c)
  ELSE IF pose.position = "undefined" THEN Rotated(MarkPosed(c), pose)
  ELSE IF pose.position # "null"
       THEN [ Rotated(MarkPosed(c), pose) EXCEPT !.position = pose.position, !.matrix = "pose" ]
       ELSE [ Rotated(MarkPosed(c), pose) EXCEPT
                !.armModel = ArmPosed(c, pose, t), !.matrix = "armModel" ]

\* where the local transform comes from on a tick that computes it
PoseMark(pose) == IF pose.position # "null" THEN "pose" ELSE "armModel"

\* an update that returns early on an absent pose without asking for the
\* disconnection
UpdatePoseStay(v, ev, gamepad, slot, t) ==
  IF PoseAbsent(gamepad.pose)
  THEN [ c |-> v.c, ev |-> ev, disconnect |-> FALSE, threw |-> FALSE ]
  ELSE [ c |-> ApplyPose(v.c, gamepad.pose, t),
         ev |-> ev \o << Ev(slot, "call", "compose", << PoseMark(gamepad.pose) >>) >>,
         disconnect |-> FALSE,
         threw |-> FALSE ]

\* update from the pose test on: v is what applyVibes left, ev what was
\* dispatched and called so far
UpdatePose(v, ev, gamepad, slot, t) ==
  IF PoseAbsent(gamepad.pose)
  THEN [ c |-> v.c, ev |-> ev, disconnect |-> v.c.hasPosed, threw |-> FALSE ]
  ELSE [ c |-> ApplyPose(v.c, gamepad.pose, t),
         ev |-> ev \o (IF PoseThrows(gamepad.pose) THEN << >>
                       ELSE << Ev(slot, "call", "compose", << PoseMark(gamepad.pose) >>) >>),
         disconnect |-> FALSE,
         threw |-> PoseThrows(gamepad.pose) ]

\* the haptic servicing entered in the trace after the pose
VibesLast(r, v, slot) ==
  [ r EXCEPT !.ev = @ \o << Ev(slot, "call", "applyVibes", << >>) >> \o v.ev ]

\* an update that computes the pose before it services the haptics
UpdateVibesLast(p, v, gamepad, slot, t) ==
  VibesLast(UpdatePose(v, << Ev(slot, "call", "update", << >>) >> \o p.ev, gamepad, slot, t),
            v, slot)

\* update from this.applyVibes() on: p is what pollForChanges left
UpdateVibes(p, v, gamepad, slot, t) ==
  UpdatePose(v,
    << Ev(slot, "call", "update", << >>) >> \o p.ev
      \o << Ev(slot, "call", "applyVibes", << >>) >> \o v.ev,
    gamepad, slot, t)

UpdatePolled(p, gamepad, t, slot) ==
  UpdateVibes(p, applyVibes(p.c, gamepad, t, slot), gamepad, slot, t)

\* controller.update(): pollForChanges, applyVibes, then the pose
update(c, gamepad, t, slot) ==
  UpdatePolled(pollForChanges(c, gamepad, slot), gamepad, t, slot)

\* ------------------------------------------------ registry and poll loop

\* a registry that takes the adapter without announcing it
ConnectedSilent(ctrl, gamepad, controller) ==
  [ controllers |-> [ ctrl EXCEPT ![gamepad.index] = [ controller EXCEPT !.visible = FALSE ] ],
    ev |-> << >> ]

\* onGamepadConnect once the adapter is constructed
Connected(ctrl, gamepad, controller) ==
  [ controllers |-> [ ctrl EXCEPT ![gamepad.index] = [ controller EXCEPT !.visible = FALSE ] ],
    ev |-> (IF gamepad.hapticActuators > 0
            THEN << Ev(gamepad.index, "pulse", "",
                       << ConnectPulseIntensity, ConnectPulseDuration >>) >>
            ELSE << >>)
           \o << Ev(gamepad.index, "vr controller connected", "", << >>) >> ]

\* THREE.VRController.onGamepadConnect( gamepad ), when the constructor returns
onGamepadConnect(ctrl, gamepad) == Connected(ctrl, gamepad, VRController(gamepad))

\* what a listener of 'disconnected' finds in the registry while the
\* notification is dispatched
Registered(ctrl, index) == IF ctrl[index] # Undefined THEN "registered" ELSE "absent"

\* the handler with its two statements swapped: the slot is let go first
onGamepadDisconnectEarly(ctrl, index) ==
  [ controllers |-> [ ctrl EXCEPT ![index] = Undefined ],
    ev |-> << Ev(index, "disconnected", "",
                 << Registered([ ctrl EXCEPT ![index] = Undefined ], index) >>) >> ]

\* the handler without its last statement: the slot keeps the adapter
onGamepadDisconnectKeep(ctrl, index) ==
  [ controllers |-> ctrl,
    ev |-> << Ev(index, "disconnected", "", << Registered(ctrl, index) >>) >> ]

\* THREE.VRController.onGamepadDisconnect( gamepad, i ) with index resolved:
\* dispatch on the adapter (line 792), then let go of the slot (line 793)
onGamepadDisconnect(ctrl, index) ==
  [ controllers |-> [ ctrl EXCEPT ![index] = Undefined ],
    ev |-> << Ev(index, "disconnected", "", << Registered(ctrl, index) >>) >> ]

IsHandle(g) == g # Null /\ g # Undefined

\* for ( c in this.controllers ): each adapter still registered is
\* disconnected through the index of the gamepad it holds
RECURSIVE ClearLoop(_, _, _)
ClearLoop(ctrl, i, ev) ==
  IF i >= MaxSlots
  THEN [ controllers |-> ctrl, ev |-> ev ]
  ELSE IF ctrl[i] # Undefined
       THEN ClearLoop(onGamepadDisconnect(ctrl, ctrl[i].gamepad).controllers, i + 1,
                      ev \o onGamepadDisconnect(ctrl, ctrl[i].gamepad).ev)
       ELSE ClearLoop(ctrl, i + 1, ev)

\* a reset that empties the registry without telling the adapters
clearSilent(ctrl) == [ controllers |-> [ i \in Slots |-> Undefined ], ev |-> << >> ]

\* THREE.VRController.clear()
clear(ctrl) == ClearLoop(ctrl, 0, << >>)

\* what follows this.controllers[ i ].update(): u is what update did
SlotUpdated(conn, u, disc, i) ==
  IF u.disconnect
  THEN [ controllers |-> disc.controllers,
         ev |-> conn.ev \o u.ev \o disc.ev, threw |-> FALSE ]
  ELSE [ controllers |-> [ conn.controllers EXCEPT ![i] = u.c ],
         ev |-> conn.ev \o u.ev
                \o (IF u.threw THEN << Ev(i, "throw", "update", << >>) >> ELSE << >>),
         threw |-> u.threw ]

\* this.controllers[ i ].update(), conn being the registry after the
\* connection test
SlotUpdate(conn, gamepad, i, t) ==
  SlotUpdated(conn, update(conn.controllers[i], gamepad, t, i),
              onGamepadDisconnect(conn.controllers, gamepad.index), i)

\* the body of the for loop of THREE.VRController.update for slot i
TickSlot(ctrl, i, t) ==
  IF IsHandle(gamepads[i])
  THEN IF ctrl[i] = Undefined /\ CtorThrows(gamepads[i])
       THEN [ controllers |-> ctrl, ev |-> << Ev(i, "throw", "constructor", << >>) >>,
              threw |-> TRUE ]
       ELSE SlotUpdate(IF ctrl[i] = Undefined
                       THEN onGamepadConnect(ctrl, gamepads[i])
                       ELSE [ controllers |-> ctrl, ev |-> << >> ],
                       gamepads[i], i, t)
  ELSE IF gamepads[i] = Null /\ ctrl[i] # Undefined
       THEN [ controllers |-> onGamepadDisconnect(ctrl, i).controllers,
              ev |-> onGamepadDisconnect(ctrl, i).ev, threw |-> FALSE ]
       ELSE [ controllers |-> ctrl, ev |-> << >>, threw |-> FALSE ]

\* for ( i = 0; i < gamepads.length; i ++ ): an exception leaves the loop
RECURSIVE TickLoop(_, _, _, _)
RECURSIVE TickNext(_, _, _, _)
TickLoop(ctrl, i, t, ev) ==
  IF i >= MaxSlots
  THEN [ controllers |-> ctrl, ev |-> ev ]
  ELSE TickNext(TickSlot(ctrl, i, t), i, t, ev)

TickNext(r, i, t, ev) ==
  IF r.threw
  THEN [ controllers |-> r.controllers, ev |-> ev \o r.ev ]
  ELSE TickLoop(r.controllers, i + 1, t, ev \o r.ev)

\* setVibe without the lookup: every call makes a channel
setVibeAppend(c, name, intensity) ==
  LET k0 == Len(c.vibeChannels) + 1
      channels == Append(c.vibeChannels, [ name |-> name, intensity |-> 0, queue |-> << >> ])
  IN [ c EXCEPT !.vibeChannels =
         IF IsNum(intensity) THEN [ channels EXCEPT ![k0].intensity = intensity[1] ]
         ELSE channels ]

\* setVibe without channel.splice( 0 ): a reselected channel keeps its queue
setVibeKeepQueue(c, name, intensity) ==
  LET hits == { k \in 1 .. Len(c.vibeChannels) : c.vibeChannels[k].name = name }
      found == hits # {}
      k0 == IF found THEN CHOOSE k \in hits : \A j \in hits : k <= j
            ELSE Len(c.vibeChannels) + 1
      channels == IF found
                  THEN c.vibeChannels
                  ELSE Append(c.vibeChannels, [ name |-> name, intensity |-> 0, queue |-> << >> ])
  IN [ c EXCEPT !.vibeChannels =
         IF IsNum(intensity) THEN [ channels EXCEPT ![k0].intensity = intensity[1] ]
         ELSE channels ]

\* controller.setVibe( name, intensity ) up to the scheduler it returns:
\* intensity is Undef when the caller gave none
setVibe(c, name, intensity) ==
  LET hits == { k \in 1 .. Len(c.vibeChannels) : c.vibeChannels[k].name = name }
      found == hits # {}
      k0 == IF found THEN CHOOSE k \in hits : \A j \in hits : k <= j
            ELSE Len(c.vibeChannels) + 1
      channels == IF found
                  THEN [ c.vibeChannels EXCEPT ![k0].queue = << >> ]
                  ELSE Append(c.vibeChannels, [ name |-> name, intensity |-> 0, queue |-> << >> ])
  IN [ c EXCEPT !.vibeChannels =
         IF IsNum(intensity) THEN [ channels EXCEPT ![k0].intensity = intensity[1] ]
         ELSE channels ]

\* the channel setVibe selects: the first of that name, or the one it appends
VibeChannelIndex(c, name) ==
  IF \E k \in 1 .. Len(c.vibeChannels) : c.vibeChannels[k].name = name
  THEN CHOOSE k \in 1 .. Len(c.vibeChannels) :
         /\ c.vibeChannels[k].name = name
         /\ \A j \in 1 .. (k - 1) : c.vibeChannels[j].name # name
  ELSE Len(c.vibeChannels) + 1

\* the object setVibe returns: it closes over the adapter's channel k and a
\* cursor that starts at window.performance.now()
Scheduler(c, k, cursor) == [ c |-> c, k |-> k, cursor |-> cursor ]

\* o.set( intensity ): channel.push([ cursor, intensity ])
SchedSet(o, intensity) ==
  [ o EXCEPT !.c.vibeChannels[o.k].queue = Append(@, << o.cursor, intensity >>) ]

\* o.wait( duration ): cursor += duration
SchedWait(o, duration) == [ o EXCEPT !.cursor = @ + duration ]

\* the chain of .wait( d ) and .set( v ) calls that follows setVibe( ... )
RECURSIVE SchedChain(_, _)
SchedChain(o, cmds) ==
  IF cmds = << >> THEN o
  ELSE SchedChain(IF Head(cmds).op = "wait"
                  THEN SchedWait(o, Head(cmds).arg)
                  ELSE SchedSet(o, Head(cmds).arg),
                  Tail(cmds))

\* controller.setVibe( name, intensity ) followed by its chain, at time t
setVibeChain(c, name, intensity, cmds, t) ==
  SchedChain(Scheduler(setVibe(c, name, intensity), VibeChannelIndex(c, name), t), cmds).c

\* ------------------------------------------------------- the slide deck
\* slides.js: the deck has MaxSlides top-level slides, numbered from 0, each
\* with one iframe, named by the number of its slide; the slides of
\* InstantSlides carry the class 'instant'. The deck is held as
\* [ data, iframes, timers, at ]: the iframes whose src is put away in
\* data( 'src' ), window.iframes, the enable timers set and not yet fired in
\* the order they were set, and the slide of the last deck.change

DeckSlides == 0 .. (MaxSlides - 1)

InstantSlides == { 2 }

\* var mask = $this.is('.instant') ? [i, i+1] : [i-1, i, i+1]
Mask(i) == IF i \in InstantSlides THEN { i, i + 1 } ELSE { i - 1, i, i + 1 }

\* $iframes[ v ]: the iframes of every slide whose mask holds v
Preload(v) == { i \in DeckSlides : v \in Mask(i) }

\* iframes.indexOf( iframe ), -1 when it is not listed
IndexOf(list, f) ==
  IF \E n \in 1 .. Len(list) : list[n] = f
  THEN (CHOOSE n \in 1 .. Len(list) : list[n] = f /\ \A j \in 1 .. (n - 1) : list[j] # f) - 1
  ELSE 0 - 1

\* iframes.splice( index, 1 ); a negative index counts from the end
Splice(list, index) ==
  LET start == IF index < 0 THEN Max(Len(list) + index, 0) ELSE Min(index, Len(list))
  IN [ n \in 1 .. (Len(list) - (IF start < Len(list) THEN 1 ELSE 0)) |->
         IF n <= start THEN list[n] ELSE list[n + 1] ]

\* disable( iframe )
disable(d, f) ==
  IF f \notin d.data
  THEN [ d EXCEPT !.data = @ \cup { f },
                  !.iframes = Splice(@, IndexOf(@, f)) ]
  ELSE d

\* enable( iframe, step )
enable(d, f) ==
  IF f \in d.data
  THEN [ d EXCEPT !.data = @ \ { f }, !.iframes = Append(@, f) ]
  ELSE d

\* $( ... ).each( function () { disable( this ) } ): in document order, the
\* iframes from f on that are not kept
RECURSIVE DisableEach(_, _, _)
DisableEach(d, f, keep) ==
  IF f >= MaxSlides THEN d
  ELSE DisableEach(IF f \in keep THEN d ELSE disable(d, f), f + 1, keep)

\* the timers deck.change sets for $iframes[ to ], in document order
RECURSIVE PreloadTimers(_, _)
PreloadTimers(f, to) ==
  IF f >= MaxSlides THEN << >>
  ELSE (IF f \in Preload(to) THEN << f >> ELSE << >>) \o PreloadTimers(f + 1, to)

\* the deck when the ready handler has run: "Hide all iframes"
DeckReady ==
  DisableEach([ data |-> { }, iframes |-> << >>, timers |-> << >>, at |-> 0 - 1 ], 0, { })

\* the deck.change handler: timers for the iframes to preload, the others
\* disabled at once
change(d, to) ==
  DisableEach([ d EXCEPT !.at = to, !.timers = @ \o PreloadTimers(0, to) ],
              0, Preload(to))

\* ------------------------------------------------------------- the host

ButtonReleased == [ value |-> 0, touched |-> FALSE, pressed |-> FALSE ]

ButtonTouched == [ value |-> 0, touched |-> TRUE, pressed |-> FALSE ]

ButtonPressed == [ value |-> 10, touched |-> TRUE, pressed |-> TRUE ]

\* a pose object whose orientation and position are still null
NullPose(hasOrientation, hasPosition) ==
  [ obj |-> "object", orientation |-> "null", position |-> "null",
    hasOrientation |-> hasOrientation, hasPosition |-> hasPosition ]

\* gamepad.pose === null: a plain gamepad
NoPose ==
  [ obj |-> "null", orientation |-> "null", position |-> "null",
    hasOrientation |-> FALSE, hasPosition |-> FALSE ]

Handle(id, index, nAxes, nButtons, pose, actuators) ==
  [ id |-> id, index |-> index, hand |-> "",
    axes |-> [ k \in 1 .. nAxes |-> 0 ],
    buttons |-> [ k \in 1 .. nButtons |-> ButtonReleased ],
    pose |-> pose, hapticActuators |-> actuators ]

\* the devices the poll-loop specification plugs in: a 6-DOF Vive wand with a
\* haptic actuator, a 3-DOF Daydream controller, a plain gamepad without pose
Device(kind, index) ==
  CASE kind = "vive" ->
         Handle(<< "OpenVR Gamepad" >>, index, 2, 4, NullPose(TRUE, TRUE), 1)
    [] kind = "daydream" ->
         Handle(<< "Daydream Controller" >>, index, 2, 1, NullPose(TRUE, FALSE), 0)
    [] kind = "gamepad" ->
         Handle(<< "Generic", " USB Joystick" >>, index, 2, 2, NoPose, 0)

DeviceKinds == { "vive", "daydream", "gamepad" }

\* every handle the host can report, one per kind and slot
Devices == { Device(kind, i) : kind \in DeviceKinds, i \in Slots }

\* a device appears in an empty slot of the host, whether or not the page can
\* poll it; a new handle object takes a slot only after the registry let go of
\* the adapter of the previous one
HostConnect(i, g) ==
  /\ ~IsHandle(gamepads[i])
  /\ controllers[i] = Undefined
  /\ gamepads' = [ gamepads EXCEPT ![i] = g ]
  /\ trace' = << >>
  /\ UNCHANGED << hasGetGamepads, controllers, now, schedulers, deck >>

\* the host reports the slot empty: null, or a hole in the array
HostDisconnect(i, empty) ==
  /\ IsHandle(gamepads[i])
  /\ gamepads' = [ gamepads EXCEPT ![i] = empty ]
  /\ trace' = << >>
  /\ UNCHANGED << hasGetGamepads, controllers, now, schedulers, deck >>

\* the live handle's pose changes; a device without position tracking never
\* reports a position
HostSetPose(i, orientation, position) ==
  /\ IsHandle(gamepads[i])
  /\ gamepads[i].pose.obj = "object"
  /\ position = "null" \/ gamepads[i].pose.hasPosition
  /\ << orientation, position >> # << gamepads[i].pose.orientation, gamepads[i].pose.position >>
  /\ gamepads' = [ gamepads EXCEPT ![i].pose.orientation = orientation,
                                   ![i].pose.position = position ]
  /\ trace' = << >>
  /\ UNCHANGED << hasGetGamepads, controllers, now, schedulers, deck >>

\* the host reports another pose object for the device, with capability flags
\* and data of its own
HostSetPoseObject(i, pose) ==
  /\ IsHandle(gamepads[i])
  /\ gamepads[i].pose # pose
  /\ gamepads' = [ gamepads EXCEPT ![i].pose = pose ]
  /\ trace' = << >>
  /\ UNCHANGED << hasGetGamepads, controllers, now, schedulers, deck >>

HostSetButton(i, k, b) ==
  /\ IsHandle(gamepads[i])
  /\ k < Len(gamepads[i].buttons)
  /\ gamepads[i].buttons[k + 1] # b
  /\ gamepads' = [ gamepads EXCEPT ![i].buttons[k + 1] = b ]
  /\ trace' = << >>
  /\ UNCHANGED << hasGetGamepads, controllers, now, schedulers, deck >>

HostSetAxes(i, k, x, y) ==
  /\ IsHandle(gamepads[i])
  /\ 2 * k + 1 < Len(gamepads[i].axes)
  /\ << x, y >> # << gamepads[i].axes[2 * k + 1], gamepads[i].axes[2 * k + 2] >>
  /\ gamepads' = [ gamepads EXCEPT ![i].axes[2 * k + 1] = x, ![i].axes[2 * k + 2] = y ]
  /\ trace' = << >>
  /\ UNCHANGED << hasGetGamepads, controllers, now, schedulers, deck >>

HostSetHand(i, hand) ==
  /\ IsHandle(gamepads[i])
  /\ gamepads[i].hand # hand
  /\ gamepads' = [ gamepads EXCEPT ![i].hand = hand ]
  /\ trace' = << >>
  /\ UNCHANGED << hasGetGamepads, controllers, now, schedulers, deck >>

\* window.performance.now() moves on by dt milliseconds between two ticks
Advance(dt) ==
  /\ now + dt <= MaxTime
  /\ now' = now + dt
  /\ trace' = << >>
  /\ UNCHANGED << gamepads, hasGetGamepads, controllers, schedulers, deck >>

\* ------------------------------------------------------------- operations

TickDone(r) ==
  /\ controllers' = r.controllers
  /\ trace' = << Ev(0, "call", "THREE.VRController.update", << >>) >> \o r.ev
  /\ UNCHANGED << gamepads, hasGetGamepads, now, schedulers, deck >>

\* a poll loop that does not test for navigator.getGamepads
TickBlind == TickDone(TickLoop(controllers, 0, now, << >>))

\* THREE.VRController.update(): one tick of the poll loop
Tick ==
  TickDone(IF hasGetGamepads
           THEN TickLoop(controllers, 0, now, << >>)
           ELSE [ controllers |-> controllers, ev |-> << >> ])

FrameDone(r, t) ==
  /\ now' = t
  /\ controllers' = r.controllers
  /\ trace' = << Ev(0, "call", "THREE.VRController.update", << >>) >> \o r.ev
  /\ UNCHANGED << gamepads, hasGetGamepads, schedulers, deck >>

\* an animation frame: dt milliseconds after the last one the application
\* calls THREE.VRController.update()
Frame(dt) ==
  /\ now + dt <= MaxTime
  /\ FrameDone(IF hasGetGamepads
               THEN TickLoop(controllers, 0, now + dt, << >>)
               ELSE [ controllers |-> controllers, ev |-> << >> ],
               now + dt)

\* the application calls THREE.VRController.clear()
Clear ==
  /\ controllers' = clear(controllers).controllers
  /\ trace' = clear(controllers).ev
  /\ UNCHANGED << gamepads, hasGetGamepads, now, schedulers, deck >>

\* the application calls controller.setVibe( intensity ) on a registered adapter
SetVibe(i, intensity) ==
  /\ controllers[i] # Undefined
  /\ controllers[i].vibeChannels[1].intensity # intensity
  /\ controllers' = [ controllers EXCEPT ![i] = setVibe(@, "", Num(intensity)) ]
  /\ trace' = << >>
  /\ UNCHANGED << gamepads, hasGetGamepads, now, schedulers, deck >>

\* the application calls controller.setVibe( name, intensity ) on a registered
\* adapter and chains cmds on what it returns
Vibe(i, name, intensity, cmds) ==
  /\ controllers[i] # Undefined
  /\ controllers' = [ controllers EXCEPT ![i] = setVibeChain(@, name, intensity, cmds, now) ]
  /\ trace' = << >>
  /\ UNCHANGED << gamepads, hasGetGamepads, now, schedulers, deck >>

\* the application keeps what controller.setVibe( name ) returns: o closes
\* over the channel selected and over a cursor that starts now
Hold(i, name) ==
  /\ controllers[i] # Undefined
  /\ Len(schedulers) < MaxSchedulers
  /\ controllers' = [ controllers EXCEPT ![i] = setVibe(@, name, Undef) ]
  /\ schedulers' = Append(schedulers,
       [ slot |-> i, k |-> VibeChannelIndex(controllers[i], name), cursor |-> now ])
  /\ trace' = << >>
  /\ UNCHANGED << gamepads, hasGetGamepads, now, deck >>

\* the application calls o.set( intensity ) on a scheduler it holds
HeldSet(n, intensity) ==
  /\ n \in 1 .. Len(schedulers)
  /\ controllers[schedulers[n].slot] # Undefined
  /\ Len(controllers[schedulers[n].slot].vibeChannels[schedulers[n].k].queue) < MaxQueue
  /\ controllers' = [ controllers EXCEPT ![schedulers[n].slot] =
       SchedSet(Scheduler(@, schedulers[n].k, schedulers[n].cursor), intensity).c ]
  /\ trace' = << >>
  /\ UNCHANGED << gamepads, hasGetGamepads, now, schedulers, deck >>

\* the application calls o.wait( duration ) on a scheduler it holds
HeldWait(n, duration) ==
  /\ n \in 1 .. Len(schedulers)
  /\ schedulers[n].cursor + duration <= MaxVibeTime
  /\ schedulers' = [ schedulers EXCEPT ![n].cursor =
       SchedWait(Scheduler(controllers[schedulers[n].slot], schedulers[n].k, @), duration).cursor ]
  /\ trace' = << >>
  /\ UNCHANGED << gamepads, hasGetGamepads, controllers, now, deck >>

\* what a getter call leaves in the trace: the argument, and the value when
\* the call returned
Got(i, name, arg, r) ==
  /\ trace' = << IF r.threw
                 THEN Ev(i, "throw", name, << arg >>)
                 ELSE Ev(i, "return", name, << arg, r.value >>) >>
  /\ UNCHANGED << gamepads, hasGetGamepads, controllers, now, schedulers, deck >>

\* the application calls controller.getAxes( ... ) on a registered adapter
GetAxes(i, arg) ==
  /\ controllers[i] # Undefined
  /\ Got(i, "getAxes", arg, getAxes(controllers[i], arg))

\* the application calls controller.getButton( ... ) on a registered adapter
GetButton(i, arg) ==
  /\ controllers[i] # Undefined
  /\ Got(i, "getButton", arg, getButton(controllers[i], arg))

\* the presentation moves to slide to: 'deck.change' is triggered
DeckChange(to) ==
  /\ to # deck.at
  /\ Len(deck.timers) + Cardinality(Preload(to)) <= MaxTimers
  /\ deck' = change(deck, to)
  /\ UNCHANGED << gamepads, hasGetGamepads, controllers, now, trace, schedulers >>

\* the oldest timer set by a deck.change fires: enable( iframe, go )
TimerFires ==
  /\ deck.timers # << >>
  /\ deck' = [ enable(deck, Head(deck.timers)) EXCEPT !.timers = Tail(deck.timers) ]
  /\ UNCHANGED << gamepads, hasGetGamepads, controllers, now, trace, schedulers >>

\* the application moves the camera that controller.head refers to
SetHead(i, head) ==
  /\ controllers[i] # Undefined
  /\ controllers[i].head # head
  /\ controllers' = [ controllers EXCEPT ![i].head = head ]
  /\ trace' = << >>
  /\ UNCHANGED << gamepads, hasGetGamepads, now, schedulers, deck >>

\* the application calls controller.renderVibes() on a registered adapter
RenderVibes(i) ==
  /\ controllers[i] # Undefined
  /\ controllers' = [ controllers EXCEPT ![i] = renderVibes(@, now) ]
  /\ trace' = << Ev(i, "call", "renderVibes", << renderVibes(controllers[i], now).intensity >>) >>
  /\ UNCHANGED << gamepads, hasGetGamepads, now, schedulers, deck >>

\* ---------------------------------------------------------- specifications

InitRegistry ==
  /\ controllers = [ i \in Slots |-> Undefined ]
  /\ now = 0
  /\ trace = << >>
  /\ schedulers = << >>
  /\ deck = DeckReady

\* the poll loop and the registry: devices come and go in every slot and
\* their poses change between ticks
Init ==
  /\ gamepads = [ i \in Slots |-> Null ]
  /\ hasGetGamepads \in BOOLEAN
  /\ InitRegistry

PoseShapes == { << "null", "null" >>, << "value", "value" >>, << "value", "null" >> }

Next ==
  \/ \E g \in Devices : HostConnect(g.index, g)
  \/ \E i \in Slots, empty \in { Null, Undefined } : HostDisconnect(i, empty)
  \/ \E i \in Slots, s \in PoseShapes : HostSetPose(i, s[1], s[2])
  \/ Clear
  \/ Tick

Spec == Init /\ [][Next]_vars

\* one tick in detail: a tracked Vive wand sits in every slot; between ticks
\* its first button and the default vibration channel change and the clock
\* moves on by more than half the longest pulse
TrackedVive(i) ==
  [ Device("vive", i) EXCEPT !.pose.orientation = "value", !.pose.position = "value" ]

InitOrder ==
  /\ gamepads = [ i \in Slots |-> TrackedVive(i) ]
  /\ hasGetGamepads = TRUE
  /\ InitRegistry

NextOrder ==
  \/ \E i \in Slots, b \in { ButtonReleased, ButtonPressed } : HostSetButton(i, 0, b)
  \/ \E i \in Slots, v \in { 0, 5 } : SetVibe(i, v)
  \/ \E dt \in { VIBE_TIME_MAX \div 2 + 500 } : Advance(dt)
  \/ Tick

SpecOrder == InitOrder /\ [][NextOrder]_vars

\* change detection of one adapter: slot 0 holds one device whose axes, second
\* button and hand change between ticks
\* the raw pairs the host reports, in tenths: at rest, one axis at rest, within
\* the dead zone, one axis within it, beyond the press threshold either way
AxisPairs ==
  { << 0, 0 >>, << 0, 5 >>, << 1, 0 >>, << 1, 2 >>, << 0 - 1, 1 >>, << 1, 5 >>,
    << 3, 7 >>, << 7, 7 >>, << 0 - 7, 0 - 7 >> }

PollDevice(kind, x, y) ==
  CASE kind = "vive" ->
         [ Handle(<< "OpenVR Gamepad" >>, 0, 2, 4, NoPose, 0) EXCEPT !.axes = << x, y >> ]
    [] kind = "touch" ->
         [ Handle(<< "Oculus Touch (Right)" >>, 0, 2, 6, NoPose, 0) EXCEPT !.axes = << x, y >> ]
    [] kind = "generic" ->
         [ Handle(<< "Generic", " USB Joystick" >>, 0, 2, 2, NoPose, 0) EXCEPT !.axes = << x, y >> ]

PollKinds == { "vive", "touch", "generic" }

InitPoll ==
  /\ \E kind \in PollKinds, p \in AxisPairs :
       gamepads = [ i \in Slots |-> IF i = 0 THEN PollDevice(kind, p[1], p[2]) ELSE Null ]
  /\ hasGetGamepads = TRUE
  /\ InitRegistry

NextPoll ==
  \/ \E p \in AxisPairs : HostSetAxes(0, 0, p[1], p[2])
  \/ \E b \in { ButtonReleased, ButtonPressed } : HostSetButton(0, 1, b)
  \/ \E h \in { "", "left" } : HostSetHand(0, h)
  \/ Tick

SpecPoll == InitPoll /\ [][NextPoll]_vars

\* haptics: slot 0 holds a tracked device with or without an actuator; the
\* application selects channels, sets intensities and schedules commands, the
\* clock moves on in steps of 50 ms up to MaxVibeTime

\* a Daydream controller that reports its orientation; it has no actuator
TrackedDaydream(i) == [ Device("daydream", i) EXCEPT !.pose.orientation = "value" ]

\* the calls the application makes: setVibe( 'x', 0.5 ).wait( 100 ).set( 0 ),
\* setVibe( 'x' ), setVibe( 'x', 0.6 ), setVibe( 'y', 0.7 ), setVibe( 'y', -0.3 )
VibeCalls ==
  { [ name |-> "x", intensity |-> Num(5),
      cmds |-> << [ op |-> "wait", arg |-> 100 ], [ op |-> "set", arg |-> 0 ] >> ],
    [ name |-> "x", intensity |-> Undef, cmds |-> << >> ],
    [ name |-> "x", intensity |-> Num(6), cmds |-> << >> ],
    [ name |-> "y", intensity |-> Num(7), cmds |-> << >> ],
    [ name |-> "y", intensity |-> Num(0 - 3), cmds |-> << >> ] }

InitVibe ==
  /\ \E g \in { TrackedVive(0), TrackedDaydream(0) } :
       gamepads = [ i \in Slots |-> IF i = 0 THEN g ELSE Null ]
  /\ hasGetGamepads = TRUE
  /\ InitRegistry

NextVibe ==
  \/ \E v \in VibeCalls : Vibe(0, v.name, v.intensity, v.cmds)
  \/ \E v \in { 5 } : SetVibe(0, v)
  \/ \E dt \in { 50 } : now + dt <= MaxVibeTime /\ Advance(dt)
  \/ RenderVibes(0)
  \/ Tick

SpecVibe == InitVibe /\ [][NextVibe]_vars

\* command queues: slot 0 holds a Vive wand; the application schedules chains
\* of several commands, some of them for the same moment, and renders them
\* before, at and after the moments they are scheduled for
QueueCalls ==
  { [ name |-> "x", intensity |-> Num(5),
      cmds |-> << [ op |-> "wait", arg |-> 50 ], [ op |-> "set", arg |-> 2 ],
                  [ op |-> "wait", arg |-> 50 ], [ op |-> "set", arg |-> 0 ] >> ],
    [ name |-> "x", intensity |-> Undef,
      cmds |-> << [ op |-> "set", arg |-> 7 ], [ op |-> "wait", arg |-> 0 ],
                  [ op |-> "set", arg |-> 3 ], [ op |-> "wait", arg |-> 100 ],
                  [ op |-> "set", arg |-> 0 ] >> ],
    [ name |-> "y", intensity |-> Num(4),
      cmds |-> << [ op |-> "wait", arg |-> 100 ], [ op |-> "set", arg |-> 0 ] >> ] }

InitQueue ==
  /\ gamepads = [ i \in Slots |-> IF i = 0 THEN TrackedVive(0) ELSE Null ]
  /\ hasGetGamepads = TRUE
  /\ InitRegistry

NextQueue ==
  \/ \E v \in QueueCalls : Vibe(0, v.name, v.intensity, v.cmds)
  \/ \E dt \in { 50 } : now + dt <= MaxVibeTime /\ Advance(dt)
  \/ RenderVibes(0)
  \/ Tick

SpecQueue == InitQueue /\ [][NextQueue]_vars

\* schedulers kept by the application: slot 0 holds a Daydream controller; the
\* application selects channel 'x' time and again, keeps up to
\* MaxSchedulers of the objects returned and calls set and wait on any of them
\* at any later time, with up to MaxQueue commands queued on a channel
InitSched ==
  /\ gamepads = [ i \in Slots |-> IF i = 0 THEN TrackedDaydream(0) ELSE Null ]
  /\ hasGetGamepads = TRUE
  /\ InitRegistry

NextSched ==
  \/ \E name \in { "x" } : Hold(0, name)
  \/ \E n \in 1 .. MaxSchedulers, v \in { 5 } : HeldSet(n, v)
  \/ \E n \in 1 .. MaxSchedulers, d \in { 100 } : HeldWait(n, d)
  \/ \E dt \in { 50 } : now + dt <= MaxVibeTime /\ Advance(dt)
  \/ RenderVibes(0)
  \/ Tick

SpecSched == InitSched /\ [][NextSched]_vars

\* the pulse that keeps a vibration going: slot 0 holds a Vive wand or a
\* Daydream controller, the default channel is switched between 0 and 0.5 and
\* the clock moves in eighths of the longest pulse
InitPulse ==
  /\ \E g \in { TrackedVive(0), TrackedDaydream(0) } :
       gamepads = [ i \in Slots |-> IF i = 0 THEN g ELSE Null ]
  /\ hasGetGamepads = TRUE
  /\ InitRegistry

NextPulse ==
  \/ \E v \in { 0, 5 } : SetVibe(0, v)
  \/ \E dt \in { VIBE_TIME_MAX \div 8 } : Advance(dt)
  \/ Tick

SpecPulse == InitPulse /\ [][NextPulse]_vars

\* a vibration kept going: slot 0 holds a Vive wand or a Daydream controller;
\* the application sets the default channel during the first quarter of the
\* longest pulse and leaves it alone afterwards; frames follow one another
\* less than half the longest pulse apart, and they keep coming while
\* the clock has room for one
FrameSteps == { VIBE_TIME_MAX \div 8, VIBE_TIME_MAX \div 4, 3 * (VIBE_TIME_MAX \div 8) }

SustainLevels == { 0, 3, 5, 8 }

InitSustain ==
  /\ \E g \in { TrackedVive(0), TrackedDaydream(0) } :
       gamepads = [ i \in Slots |-> IF i = 0 THEN g ELSE Null ]
  /\ hasGetGamepads = TRUE
  /\ InitRegistry

Frames == \E dt \in FrameSteps : Frame(dt)

NextSustain ==
  \/ \E v \in SustainLevels : now <= VIBE_TIME_MAX \div 4 /\ SetVibe(0, v)
  \/ Frames
  \/ Tick

\* what a frame does to the clock; no other step moves it
FrameClock == \E dt \in FrameSteps : now + dt <= MaxTime /\ now' = now + dt

SpecSustain == InitSustain /\ [][NextSustain]_vars /\ WF_now(FrameClock)

\* degrees of freedom: slot 0 holds a Daydream controller whose pose object,
\* with its capability flags and its data, the host replaces between ticks
PoseObjects ==
  { NoPose }
    \cup { [ obj |-> "object", orientation |-> o, position |-> p,
             hasOrientation |-> ho, hasPosition |-> hp ] :
             o \in { "null", "undefined", "value" }, p \in { "null", "undefined", "value" },
             ho \in BOOLEAN, hp \in BOOLEAN }

PoseDevices == { Handle(<< "Daydream Controller" >>, 0, 2, 1, pose, 0) : pose \in PoseObjects }

InitPose ==
  /\ gamepads = [ i \in Slots |-> Null ]
  /\ hasGetGamepads = TRUE
  /\ InitRegistry

NextPose ==
  \/ \E g \in PoseDevices : HostConnect(0, g)
  \/ \E pose \in PoseObjects : HostSetPoseObject(0, pose)
  \/ HostDisconnect(0, Null)
  \/ Tick

SpecPose == InitPose /\ [][NextPose]_vars

\* the arm model: slot 0 holds a Daydream controller that is turned between
\* two orientations, now and then reports a position or nothing at all, while
\* the head moves and the clock advances by a second at a time
ArmPoses ==
  { [ obj |-> "object", orientation |-> o, position |-> p,
      hasOrientation |-> TRUE, hasPosition |-> FALSE ] :
      o \in { "value", "turned" }, p \in { "null", "value" } }
    \cup { NullPose(TRUE, FALSE) }

HeadPoses ==
  { [ position |-> "origin", quaternion |-> [ yaw |-> 0, pitch |-> 0 ] ],
    [ position |-> "standing", quaternion |-> [ yaw |-> 50, pitch |-> 20 ] ] }

InitArm ==
  /\ gamepads = [ i \in Slots |-> IF i = 0 THEN Device("daydream", 0) ELSE Null ]
  /\ hasGetGamepads = TRUE
  /\ InitRegistry

NextArm ==
  \/ \E pose \in ArmPoses : HostSetPoseObject(0, pose)
  \/ \E head \in HeadPoses : SetHead(0, head)
  \/ \E dt \in { 1000 } : Advance(dt)
  \/ Tick

SpecArm == InitArm /\ [][NextArm]_vars

\* the buttons of one adapter: slot 0 holds a Vive wand whose thumbpad and
\* trigger (its primary button) change value, touch and press independently
\* between ticks
ButtonStates ==
  { [ value |-> v, touched |-> t, pressed |-> p ] :
      v \in { 0, 10 }, t \in BOOLEAN, p \in BOOLEAN }

InitButtons ==
  /\ gamepads = [ i \in Slots |-> IF i = 0 THEN Device("vive", 0) ELSE Null ]
  /\ hasGetGamepads = TRUE
  /\ InitRegistry

NextButtons ==
  \/ \E k \in { 0, 1 }, b \in ButtonStates : HostSetButton(0, k, b)
  \/ Tick

SpecButtons == InitButtons /\ [][NextButtons]_vars

\* construction: slot 0 takes every kind of handle with every button count,
\* is polled and is emptied again
MaxButtons == 6

CtorIds ==
  { supportedKeys[k] : k \in 1 .. Len(supportedKeys) }
    \cup { << "Spatial Controller (Spatial Interaction Source)", " 045E-065A" >>,
           << "Generic", " USB Joystick" >>,
           << "xbox", " / ", "Daydream Controller" >>,
           << "Oculus Remote", " ", "Gear VR Touchpad" >> }

CtorButtonCounts == (0 .. MaxButtons) \cup { Len(XboxSchema.buttons) }

CtorDevices == { Handle(id, 0, 2, n, NoPose, 0) : id \in CtorIds, n \in CtorButtonCounts }

InitCtor ==
  /\ gamepads = [ i \in Slots |-> Null ]
  /\ hasGetGamepads = TRUE
  /\ InitRegistry

NextCtor ==
  \/ \E g \in CtorDevices : HostConnect(0, g)
  \/ \E b \in { ButtonReleased, ButtonPressed } : HostSetButton(0, 0, b)
  \/ HostDisconnect(0, Null)
  \/ Tick

SpecCtor == InitCtor /\ [][NextCtor]_vars

\* generic axes: slot 0 takes a handle the catalog does not know, or a Vive
\* wand, with any number of raw axes up to MaxAxes; the host moves the first
\* two pairs between ticks
MaxAxes == 5

AxesDevices ==
  { Handle(id, 0, n, 2, NoPose, 0) :
      id \in { << "Generic", " USB Joystick" >>, << "OpenVR Gamepad" >> },
      n \in 0 .. MaxAxes }

InitAxes ==
  /\ gamepads = [ i \in Slots |-> Null ]
  /\ hasGetGamepads = TRUE
  /\ InitRegistry

NextAxes ==
  \/ \E g \in AxesDevices : HostConnect(0, g)
  \/ \E k \in { 0, 1 }, p \in { << 0, 0 >>, << 3, 7 >>, << 7, 7 >> } :
       HostSetAxes(0, k, p[1], p[2])
  \/ HostDisconnect(0, Null)
  \/ Tick

SpecAxes == InitAxes /\ [][NextAxes]_vars

\* getters: slot 0 holds a Vive wand, a Daydream controller or a plain
\* gamepad; the application asks for axes and buttons by name, by index and
\* without argument while the trigger is pressed and released
GetterArgs ==
  { [ kind |-> "undefined", name |-> "", index |-> 0 ] }
    \cup { [ kind |-> "string", name |-> n, index |-> 0 ] :
             n \in { "primary", "trigger", "thumbpad", "button_0", "axes_1" } }
    \cup { [ kind |-> "number", name |-> "", index |-> k ] : k \in { 0, 1, 4 } }

InitGet ==
  /\ \E g \in { Device("vive", 0), Device("daydream", 0), Device("gamepad", 0) } :
       gamepads = [ i \in Slots |-> IF i = 0 THEN g ELSE Null ]
  /\ hasGetGamepads = TRUE
  /\ InitRegistry

NextGet ==
  \/ \E b \in { ButtonReleased, ButtonPressed } : HostSetButton(0, 1, b)
  \/ \E arg \in GetterArgs : GetAxes(0, arg)
  \/ \E arg \in GetterArgs : GetButton(0, arg)
  \/ Tick

SpecGet == InitGet /\ [][NextGet]_vars

\* the slide deck: the presentation moves from slide to slide in any order
\* while the timers of earlier moves fire one by one
InitDeck ==
  /\ gamepads = [ i \in Slots |-> Null ]
  /\ hasGetGamepads = TRUE
  /\ InitRegistry

NextDeck ==
  \/ \E to \in DeckSlides : DeckChange(to)
  \/ TimerFires

SpecDeck == InitDeck /\ [][NextDeck]_vars

\* -------------------------------------------------------------- properties

\* positions of a trace that hold a call of the named function for slot i
Calls(tr, i, name) ==
  { k \in 1 .. Len(tr) : tr[k].slot = i /\ tr[k].type = "call" /\ tr[k].name = name }

\* positions of a trace that hold a notification of the given type of slot i
Notes(tr, i, type) ==
  { k \in 1 .. Len(tr) : tr[k].slot = i /\ tr[k].type = type }

\* the notifications pollForChanges dispatches
ChangeTypes ==
  { "hand changed", "axes changed", "value changed",
    "touch began", "touch ended", "press began", "press ended" }

Changes(tr, i) ==
  { k \in 1 .. Len(tr) : tr[k].slot = i /\ tr[k].type \in ChangeTypes }

\* positions holding '<name> axes changed' of slot i
AxesNotes(tr, i, name) ==
  { k \in Notes(tr, i, "axes changed") : tr[k].name = name }

\* the two raw values an axis pair of slot i reads
RawPair(i, axis) ==
  << gamepads[i].axes[axis.indexes[1] + 1], gamepads[i].axes[axis.indexes[2] + 1] >>

\* C1: on every tick of a host that can be polled each non-empty slot has
\* update called exactly once on its adapter; a non-empty slot without an
\* adapter gets exactly one adapter,
\* constructed from the slot's handle and registered, and exactly one
\* 'vr controller connected' broadcast, which precedes the update call; no
\* adapter is constructed, announced or updated for any other slot
C1_ConnectThenUpdate ==
  [][(trace' # << >> /\ Tick /\ hasGetGamepads) =>
       \A i \in Slots :
         IF IsHandle(gamepads[i])
         THEN /\ Cardinality(Calls(trace', i, "update")) = 1
              /\ IF controllers[i] = Undefined
                 THEN /\ Cardinality(Notes(trace', i, "vr controller connected")) = 1
                      /\ \A a \in Notes(trace', i, "vr controller connected") :
                           \A b \in Calls(trace', i, "update") : a < b
                      /\ controllers'[i] # Undefined
                      /\ controllers'[i].name = gamepads[i].id
                      /\ controllers'[i].gamepad = i
                 ELSE Notes(trace', i, "vr controller connected") = { }
         ELSE /\ Calls(trace', i, "update") = { }
              /\ Notes(trace', i, "vr controller connected") = { }
  ]_vars

\* a tick that updated the registered adapter of slot 0 and constructed,
\* announced and updated a new adapter for a later slot
C1_Witness ==
  /\ Calls(trace, 0, "update") # { }
  /\ Notes(trace, 0, "vr controller connected") = { }
  /\ \E i \in Slots \ { 0 } :
       /\ Notes(trace, i, "vr controller connected") # { }
       /\ Calls(trace, i, "update") # { }
       /\ controllers[i] # Undefined

\* C2: when a tick finds the pose of a registered adapter that has posed
\* entirely null, exactly one 'disconnected' is dispatched for it in that tick,
\* inside its update call, and the registry slot is absent when the tick ends;
\* nothing but a tick changes the registry, so it is absent at the next poll
C2_NullPoseDisconnects ==
  [][/\ (trace' # << >> /\ Tick) =>
          \A i \in Slots :
            ( /\ IsHandle(gamepads[i])
              /\ controllers[i] # Undefined
              /\ controllers[i].hasPosed
              /\ gamepads[i].pose.obj = "object"
              /\ gamepads[i].pose.orientation = "null"
              /\ gamepads[i].pose.position = "null" )
            => /\ Cardinality(Notes(trace', i, "disconnected")) = 1
               /\ \A a \in Calls(trace', i, "update") :
                    \A b \in Notes(trace', i, "disconnected") : a < b
               /\ controllers'[i] = Undefined
     /\ trace' = << >> => controllers' = controllers
  ]_vars

\* a tick that disconnected an adapter whose handle is still in its slot with
\* an all-null pose
C2_Witness ==
  \E i \in Slots :
    /\ IsHandle(gamepads[i])
    /\ gamepads[i].pose.obj = "object"
    /\ gamepads[i].pose.orientation = "null"
    /\ gamepads[i].pose.position = "null"
    /\ Notes(trace, i, "disconnected") # { }
    /\ Calls(trace, i, "update") # { }
    /\ controllers[i] = Undefined

\* C3: when a tick finds slot i null while an adapter is registered for it,
\* the only thing done for slot i is one 'disconnected' notification,
\* dispatched while the adapter is still registered (no update, no pulse, no
\* other notification); afterwards the slot is absent; the handler changes no
\* other registry slot, and the slots the tick finds empty keep their entry
C3_NullSlotDisconnects ==
  [][(trace' # << >> /\ Tick) =>
       \A i \in Slots :
         (gamepads[i] = Null /\ controllers[i] # Undefined)
         => /\ { k \in 2 .. Len(trace') : trace'[k].slot = i }
                 = Notes(trace', i, "disconnected")
            /\ Cardinality(Notes(trace', i, "disconnected")) = 1
            /\ \A k \in Notes(trace', i, "disconnected") :
                 trace'[k].data = << "registered" >>
            /\ controllers'[i] = Undefined
            /\ onGamepadDisconnect(controllers, i).controllers
                 = [ controllers EXCEPT ![i] = Undefined ]
            /\ \A j \in Slots \ { i } :
                 gamepads[j] = Undefined \/ (gamepads[j] = Null /\ controllers[j] = Undefined)
                   => controllers'[j] = controllers[j]
  ]_vars

\* a tick that disconnected the adapter of a null slot while another slot
\* kept its adapter
C3_Witness ==
  \E i \in Slots :
    /\ gamepads[i] = Null
    /\ Notes(trace, i, "disconnected") # { }
    /\ controllers[i] = Undefined
    /\ \E j \in Slots \ { i } : controllers[j] # Undefined

\* the step of update an entry of the trace belongs to, in the order of the
\* code: the call, the change notifications, the haptics, the pose
PhaseCode(e) ==
  CASE e.type = "call" /\ e.name = "update" -> 0
    [] e.type \in ChangeTypes -> 1
    [] e.type = "call" /\ e.name \in { "applyVibes", "renderVibes" } -> 2
    [] e.type = "pulse" -> 2
    [] OTHER -> 3

\* the same steps in the order the claim gives: the pose before the haptics
PhaseClaimed(e) ==
  CASE e.type = "call" /\ e.name = "update" -> 0
    [] e.type \in ChangeTypes -> 1
    [] e.type = "call" /\ e.name \in { "applyVibes", "renderVibes" } -> 3
    [] e.type = "pulse" -> 3
    [] OTHER -> 2

\* entry k of the trace lies inside the update call of its slot
InUpdate(k) == \E u \in Calls(trace, trace[k].slot, "update") : u <= k

\* C4 (as the code has it): within one tick, for a given adapter, all change
\* notifications come first, then the haptic servicing (applyVibes and its
\* pulse), then the pose computation; across adapters the entries follow slot
\* order
C4_PollVibesPose ==
  \A a \in 2 .. Len(trace) : \A b \in 2 .. Len(trace) :
    a < b =>
      /\ trace[a].slot <= trace[b].slot
      /\ InUpdate(a) \/ trace[a].type \in { "pulse", "vr controller connected" }
      /\ (trace[a].slot = trace[b].slot /\ InUpdate(a) /\ InUpdate(b))
           => PhaseCode(trace[a]) <= PhaseCode(trace[b])

\* C4 as stated: change notifications, then the pose computation, then the
\* haptic servicing
C4_PollPoseVibes ==
  \A a \in 2 .. Len(trace) : \A b \in 2 .. Len(trace) :
    a < b =>
      /\ trace[a].slot <= trace[b].slot
      /\ (trace[a].slot = trace[b].slot /\ InUpdate(a) /\ InUpdate(b))
           => PhaseClaimed(trace[a]) <= PhaseClaimed(trace[b])

\* a tick in which a later slot's adapter notified a change, pulsed the
\* actuator and computed its pose, after slot 0 was served
C4_Witness ==
  \E i \in Slots \ { 0 } :
    /\ Calls(trace, 0, "compose") # { }
    /\ Changes(trace, i) # { }
    /\ \E p \in Notes(trace, i, "pulse") : InUpdate(p)
    /\ Calls(trace, i, "compose") # { }

C6_EveryDifferenceNotified ==
  [][(trace' # << >> /\ Tick) =>
       \A i \in Slots :
         (IsHandle(gamepads[i]) /\ controllers[i] # Undefined)
         => \A k \in 1 .. Len(controllers[i].axes) :
              LET axis == controllers[i].axes[k]
                  x == At(gamepads[i].axes, axis.indexes[1])
                  y == At(gamepads[i].axes, axis.indexes[2])
                  fresh == IF axis.isThumbstick THEN FilterPair(x, y) ELSE << x, y >>
              IN (fresh[1] # axis.value[1] \/ fresh[2] # axis.value[2])
                 => /\ Cardinality(AxesNotes(trace', i, axis.name)) = 1
                    /\ controllers'[i].axes[k].value = fresh
  ]_vars

\* the dead zone as a rule on the pair: zero when both magnitudes are within
\* the threshold, the raw pair otherwise
PairRule(x, y) ==
  IF Abs(x) <= axisThreshold /\ Abs(y) <= axisThreshold
  THEN << Num(0), Num(0) >>
  ELSE << Num(x), Num(y) >>

\* C7 (as the code has it): a thumbstick pair read at construction, or polled
\* with both raw values non-zero, is held as (0,0) when both magnitudes are
\* within the threshold and as the raw pair otherwise, so raw (0.1, 0.5) is
\* held as (0.1, 0.5): never one axis zeroed and the other raw; a poll that
\* reads a raw 0 leaves the held pair as it was
C7_PairKeptOrZeroed ==
  [][(trace' # << >> /\ Tick) =>
       \A i \in Slots :
         (IsHandle(gamepads[i]) /\ controllers'[i] # Undefined)
         => \A k \in 1 .. Len(controllers'[i].axes) :
              LET axis == controllers'[i].axes[k]
                  raw == RawPair(i, axis)
              IN axis.name = "thumbstick"
                 => IF controllers[i] = Undefined \/ (raw[1] # 0 /\ raw[2] # 0)
                    THEN axis.value = PairRule(raw[1], raw[2])
                    ELSE axis.value = controllers[i].axes[k].value
  ]_vars

\* C7 as stated: a thumbstick pair polled at raw (0.1, 0.5) is held as (0,0)
C7_PairedSuppression ==
  \A i \in Slots :
    ( /\ IsHandle(gamepads[i])
      /\ controllers[i] # Undefined
      /\ Calls(trace, i, "update") # { }
      /\ controllers[i].axes[1].name = "thumbstick"
      /\ RawPair(i, controllers[i].axes[1]) = << 1, 5 >> )
    => controllers[i].axes[1].value = << Num(0), Num(0) >>

\* a polled Oculus Touch thumbstick at raw (0.1, 0.5) held as (0.1, 0.5)
C7_Witness ==
  /\ controllers[0] # Undefined
  /\ IsHandle(gamepads[0])
  /\ Calls(trace, 0, "update") # { }
  /\ controllers[0].style = "oculus-touch-right"
  /\ gamepads[0].axes = << 1, 5 >>
  /\ controllers[0].axes[1].value = << Num(1), Num(5) >>

\* both raw values of the pair are within the dead-zone threshold
SubThreshold(raw) == Abs(raw[1]) <= axisThreshold /\ Abs(raw[2]) <= axisThreshold

C10_PrimaryResolution ==
  \A i \in Slots :
    controllers[i] # Undefined
    => LET c == controllers[i]
           schema == getSupportedById(c.name)
           n == Len(c.buttons)
           primaries == { k \in 1 .. n : c.buttons[k].isPrimary }
       IN IF schema # NoSchema
          THEN /\ primaries = { k \in 1 .. n : c.buttons[k].name = schema.primary }
               /\ Cardinality(primaries) = 1
          ELSE IF n > 1 THEN primaries = { 2 }
          ELSE IF n = 1 THEN primaries = { 1 }
               ELSE primaries = { }

\* a Gear VR controller with three buttons: the schema's primary 'touchpad'
\* at index 0 is primary, not the button at index 1
C10_Witness ==
  /\ controllers[0] # Undefined
  /\ controllers[0].style = "gearvr-controller"
  /\ Len(controllers[0].buttons) = 3
  /\ controllers[0].buttons[1].isPrimary
  /\ ~controllers[0].buttons[2].isPrimary

\* C20: when navigator.getGamepads is undefined a tick changes no registry
\* entry, constructs and updates no adapter and dispatches, broadcasts and
\* pulses nothing, whatever devices the host holds
C20_NoPollingNoOp ==
  [][(trace' # << >> /\ Tick /\ ~hasGetGamepads) =>
       /\ controllers' = controllers
       /\ Len(trace') = 1
       /\ \A i \in Slots : controllers'[i] = Undefined
  ]_vars

\* a tick on a host that holds a device but cannot be polled
C20_Witness ==
  /\ ~hasGetGamepads
  /\ trace # << >>
  /\ \E i \in Slots : IsHandle(gamepads[i]) /\ controllers[i] = Undefined

\* .wait( 100 ).set( 0.0 )
WaitThenOff == << [ op |-> "wait", arg |-> 100 ], [ op |-> "set", arg |-> 0 ] >>

\* the step renders the channels of the adapter slot i held before it
Renders(i) ==
  /\ controllers[i] # Undefined
  /\ controllers'[i] # Undefined
  /\ Calls(trace', i, "renderVibes") # { }

\* C13: setVibe( 'x', 0.5 ).wait( 100 ).set( 0.0 ) at time t0 leaves channel
\* 'x' at 0.5 with the one command ( t0 + 100, 0.0 ) queued; a renderVibes
\* that finds one command queued on a channel leaves the channel as it is
\* while now is not past the command's time (t0 + 50) and afterwards
\* (t0 + 150) gives the channel the command's intensity and an empty queue
C13_ScheduledCommand ==
  [][/\ \A i \in Slots :
          Vibe(i, "x", Num(5), WaitThenOff)
          => \E k \in 1 .. Len(controllers'[i].vibeChannels) :
               /\ controllers'[i].vibeChannels[k]
                    = [ name |-> "x", intensity |-> 5, queue |-> << << now + 100, 0 >> >> ]
               /\ \A j \in 1 .. Len(controllers'[i].vibeChannels) :
                    controllers'[i].vibeChannels[j].name = "x" => j = k
     /\ \A i \in Slots :
          Renders(i)
          => \A k \in 1 .. Len(controllers[i].vibeChannels) :
               LET before == controllers[i].vibeChannels[k]
                   after == controllers'[i].vibeChannels[k]
               IN Len(before.queue) = 1
                  => IF now > before.queue[1][1]
                     THEN /\ after.intensity = before.queue[1][2]
                          /\ after.queue = << >>
                          /\ after.name = before.name
                     ELSE after = before
  ]_vars

\* channel 'x' rendered 50 ms after the call: still at 0.5, the command for
\* 50 ms later still queued
C13_Witness ==
  /\ controllers[0] # Undefined
  /\ Calls(trace, 0, "renderVibes") # { }
  /\ \E k \in 1 .. Len(controllers[0].vibeChannels) :
       controllers[0].vibeChannels[k]
         = [ name |-> "x", intensity |-> 5, queue |-> << << now + 50, 0 >> >> ]

\* the intensities of the first n channels added up
RECURSIVE ChannelSum(_, _)
ChannelSum(channels, n) ==
  IF n = 0 THEN 0 ELSE channels[n].intensity + ChannelSum(channels, n - 1)

\* C14: after a renderVibes call the adapter's aggregate intensity, which is
\* also the value the call returned, is the sum of its channels' intensities
\* where that lies in [0, 1], 0 where the sum is below and 1 where it is above
C14_ClampedSum ==
  \A i \in Slots :
    (controllers[i] # Undefined /\ Calls(trace, i, "renderVibes") # { })
    => LET c == controllers[i]
           sum == ChannelSum(c.vibeChannels, Len(c.vibeChannels))
       IN /\ c.intensity = IF sum < 0 THEN 0 ELSE IF sum > 10 THEN 10 ELSE sum
          /\ c.intensity >= 0 /\ c.intensity <= 10
          /\ \A n \in Calls(trace, i, "renderVibes") : trace[n].data = << c.intensity >>

\* channels at 0.6 and 0.7 rendered to an aggregate of 1.0
C14_Witness ==
  /\ controllers[0] # Undefined
  /\ Calls(trace, 0, "renderVibes") # { }
  /\ \E k \in 1 .. Len(controllers[0].vibeChannels) :
       \E j \in 1 .. Len(controllers[0].vibeChannels) :
         /\ controllers[0].vibeChannels[k].intensity = 6
         /\ controllers[0].vibeChannels[j].intensity = 7
  /\ controllers[0].intensity = 10

\* the channels of that name an adapter holds
Named(c, name) == { k \in 1 .. Len(c.vibeChannels) : c.vibeChannels[k].name = name }

\* C15: setVibe( name ) with a name no channel has appends a channel of that
\* name with intensity 0 and an empty queue; with the name of an existing
\* channel it empties that channel's queue and keeps its intensity; every
\* other channel keeps its queue and its intensity
C15_ChannelSelection ==
  [][\A i \in Slots : \A name \in { v.name : v \in { w \in VibeCalls : w.intensity = Undef } } :
       Vibe(i, name, Undef, << >>)
       => LET old == controllers[i].vibeChannels
              new == controllers'[i].vibeChannels
          IN IF Named(controllers[i], name) = { }
             THEN new = Append(old, [ name |-> name, intensity |-> 0, queue |-> << >> ])
             ELSE /\ Len(new) = Len(old)
                  /\ \A k \in 1 .. Len(old) :
                       IF k \in Named(controllers[i], name)
                       THEN /\ new[k].name = name
                            /\ new[k].queue = << >>
                            /\ new[k].intensity = old[k].intensity
                       ELSE new[k] = old[k] ]_vars

\* channel 'x' was reselected while its command was pending: the command is
\* gone, its intensity is still 0.5, and channel 'y' is as it was
C15_Witness ==
  /\ controllers[0] # Undefined
  /\ trace = << >>
  /\ \E k \in Named(controllers[0], "x") :
       controllers[0].vibeChannels[k] = [ name |-> "x", intensity |-> 5, queue |-> << >> ]
  /\ \E k \in Named(controllers[0], "y") :
       controllers[0].vibeChannels[k] = [ name |-> "y", intensity |-> 7, queue |-> << >> ]

\* slot i holds an adapter whose device has no actuator, and the last tick
\* updated it
UpdatedMute(i) ==
  /\ controllers[i] # Undefined
  /\ gamepads[i] \notin { Null, Undefined }
  /\ gamepads[i].hapticActuators = 0
  /\ Calls(trace, i, "update") # { }

\* a command of the adapter's channels whose time has passed
Elapsed(c, t) ==
  \E k \in 1 .. Len(c.vibeChannels) :
    c.vibeChannels[k].queue # << >> /\ t > c.vibeChannels[k].queue[1][1]

C16_PulseWhenDue ==
  [][(trace' # << >> /\ Tick) =>
       \A i \in Slots :
         (controllers[i] # Undefined /\ controllers'[i] # Undefined)
         => LET c == controllers[i]
                sum == ChannelSum(controllers'[i].vibeChannels, Len(controllers'[i].vibeChannels))
                rendered == IF sum < 0 THEN 0 ELSE IF sum > 10 THEN 10 ELSE sum
                due == /\ gamepads[i].hapticActuators > 0
                       /\ \/ rendered # c.prior
                          \/ /\ c.lastCommanded # Undef
                             /\ 2 * (now - c.lastCommanded[1]) > 5000
                pulses == Notes(trace', i, "pulse")
            IN /\ Cardinality(pulses) = IF due THEN 1 ELSE 0
               /\ \A n \in pulses :
                    /\ trace'[n].data = << rendered, 5000 >>
                    /\ controllers'[i].prior = rendered
                    /\ controllers'[i].lastCommanded = Num(now) ]_vars

\* a Vive wand vibrating at 0.5 was pulsed again in an update late in the run
C16_Witness ==
  /\ controllers[0] # Undefined
  /\ gamepads[0] \notin { Null, Undefined }
  /\ gamepads[0].hapticActuators > 0
  /\ Calls(trace, 0, "update") # { }
  /\ \E n \in Notes(trace, 0, "pulse") : trace[n].data = << 5, 5000 >>
  /\ controllers[0].prior = 5
  /\ controllers[0].lastCommanded = Num(now)
  /\ now > 5000

\* the buttons of an adapter that are marked primary
Primaries(c) == { k \in 1 .. Len(c.buttons) : c.buttons[k].isPrimary }

\* C11 (as the code has it): an adapter with at least one button has exactly
\* one button marked primary, an adapter without buttons has none, at
\* construction and after every poll
C11_OnePrimaryIfAnyButton ==
  \A i \in Slots :
    controllers[i] # Undefined
    => Cardinality(Primaries(controllers[i])) =
         IF Len(controllers[i].buttons) > 0 THEN 1 ELSE 0

\* C11 (as the spec has it): every adapter has exactly one button marked
\* primary
C11_ExactlyOnePrimary ==
  \A i \in Slots :
    controllers[i] # Undefined => Cardinality(Primaries(controllers[i])) = 1

\* an adapter whose poll just reported a press of its first button still has
\* one primary button
C11_Witness ==
  /\ controllers[0] # Undefined
  /\ Notes(trace, 0, "press began") # { }
  /\ controllers[0].buttons[1].isPressed
  /\ Cardinality(Primaries(controllers[0])) = 1
  /\ Len(controllers[0].buttons) > 2

\* the schema of the first of the keys k .. Len(supportedKeys) found in id
RECURSIVE FirstKey(_, _)
FirstKey(id, k) ==
  IF k > Len(supportedKeys) THEN NoSchema
  ELSE IF Contains(id, supportedKeys[k]) THEN supported(supportedKeys[k])
  ELSE FirstKey(id, k + 1)

\* C18: the lookup of a device's identifier gives the schema of the first
\* key, in the order of the catalog, that occurs within the identifier, and
\* none when no key does; the adapter built for the device has that schema's
\* style; each alias resolves to the xbox schema
C18_FirstKeyInCatalogOrder ==
  /\ \A i \in Slots :
       IsHandle(gamepads[i])
       => /\ getSupportedById(gamepads[i].id) = FirstKey(gamepads[i].id, 1)
          /\ (controllers[i] # Undefined /\ controllers[i].name = gamepads[i].id)
             => controllers[i].style =
                  IF FirstKey(gamepads[i].id, 1) = NoSchema THEN ""
                  ELSE FirstKey(gamepads[i].id, 1).style
  /\ \A a \in 1 .. Len(xids) :
       /\ getSupportedById(xids[a]) = supported(<< "xbox" >>)
       /\ getSupportedById(xids[a]) # NoSchema

\* an identifier holding the keys 'xbox' and 'Daydream Controller' gave a
\* Daydream adapter, the earlier key of the catalog
C18_Witness ==
  /\ controllers[0] # Undefined
  /\ controllers[0].name = << "xbox", " / ", "Daydream Controller" >>
  /\ controllers[0].style = "daydream"

\* C19: no operation of the core raises a fault
C19_NoFault ==
  \A k \in 1 .. Len(trace) : trace[k].type # "throw"

\* three degrees of freedom for each capability a pose object declares, none
\* without a pose object
DofOfFlags(pose) ==
  IF pose.obj # "object" THEN 0
  ELSE IF pose.hasOrientation /\ pose.hasPosition THEN 6
  ELSE IF pose.hasOrientation \/ pose.hasPosition THEN 3
  ELSE 0

\* C12: an adapter's dof is 0, 3 or 6; when the adapter is created it is
\* computed from the capability flags of the handle's pose; no later step
\* changes it, whatever pose the handle reports later
C12_DofFixedAtConstruction ==
  [][\A i \in Slots :
       /\ controllers'[i] # Undefined => controllers'[i].dof \in { 0, 3, 6 }
       /\ (controllers[i] = Undefined /\ controllers'[i] # Undefined)
          => controllers'[i].dof = DofOfFlags(gamepads[i].pose)
       /\ (controllers[i] # Undefined /\ controllers'[i] # Undefined)
          => controllers'[i].dof = controllers[i].dof ]_vars

\* an adapter created with dof 3 was updated from a pose that declares and
\* reports both orientation and position
C12_Witness ==
  /\ controllers[0] # Undefined
  /\ controllers[0].dof = 3
  /\ IsHandle(gamepads[0])
  /\ gamepads[0].pose.obj = "object"
  /\ gamepads[0].pose.hasOrientation /\ gamepads[0].pose.hasPosition
  /\ gamepads[0].pose.orientation = "value" /\ gamepads[0].pose.position = "value"
  /\ Calls(trace, 0, "update") # { }
  /\ controllers[0].hasPosed
  /\ controllers[0].matrix = "pose"

\* the tick updated the arm model of the adapter in slot i
ArmUpdated(i) ==
  /\ controllers[i] # Undefined
  /\ controllers[i].armModel # Undefined
  /\ \E n \in Calls(trace, i, "compose") : trace[n].data = << "armModel" >>

\* the arm model a tick found in slot i: the adapter's, or a new one
ArmBefore(i) ==
  IF controllers[i] # Undefined /\ controllers[i].armModel # Undefined
  THEN controllers[i].armModel
  ELSE OrientationArmModel

\* the same instance in a run whose clock is ahead by shift
Shifted(m, shift) ==
  [ m EXCEPT !.time = IF @ = << >> THEN @ ELSE Num(@[1] + shift),
             !.lastTime = IF @ = << >> THEN @ ELSE Num(@[1] + shift) ]

ClockShifts == { 1000, 4000 }

\* C21: an update of an arm model gives the output pose and the root
\* orientation that the same update gives in a run where every update
\* happens later by the same amount of time
C21_ClockIndependent ==
  [][(trace' # << >> /\ Tick) =>
       \A i \in Slots :
         ArmUpdated(i)'
         => \A shift \in ClockShifts :
              LET fed == ArmFed(ArmBefore(i), controllers'[i].head, gamepads[i].pose.orientation)
                  twin == ArmUpdate(Shifted(fed, shift), now + shift)
              IN /\ twin.pose = controllers'[i].armModel.pose
                 /\ twin.rootQ = controllers'[i].armModel.rootQ ]_vars

\* C27: an adapter that has an arm model keeps it; a tick that does not
\* take the arm model branch leaves the instance as it is, and a tick that
\* does finds in it the controller orientation, the root orientation and the
\* time of the update before
C27_OneArmModel ==
  [][(trace' # << >> /\ Tick) =>
       \A i \in Slots :
         (controllers[i] # Undefined /\ controllers'[i] # Undefined
            /\ controllers[i].armModel # Undefined)
         => LET old == controllers[i].armModel
                new == controllers'[i].armModel
                angle == Abs(old.controllerQ - new.controllerQ)
            IN /\ new # Undefined
               /\ IF ArmUpdated(i)'
                  THEN /\ new.lastControllerQ = old.controllerQ
                       /\ new.lastTime = Num(now)
                       /\ new.rootQ =
                            IF 1000 * angle > 61 * (now - old.lastTime[1])
                            THEN old.rootQ + ((new.headQ.yaw - old.rootQ) * angle) \div 1000
                            ELSE new.headQ.yaw
                  ELSE new = old ]_vars

\* an adapter that has been given a position in between was updated through
\* its arm model again: the orientation of the update before is still there
C27_Witness ==
  /\ ArmUpdated(0)
  /\ controllers[0].position = "value"
  /\ controllers[0].armModel.lastControllerQ = 200
  /\ controllers[0].armModel.controllerQ = 100
  /\ controllers[0].armModel.rootQ \notin { 0, 50 }

\* C28 (as the code has it): whatever its dof, an adapter is updated through
\* an arm model on exactly the ticks whose pose has orientation data and a
\* null position; on every other tick its arm model, or the lack of one, stays
C28_ArmModelByPoseShape ==
  [][(trace' # << >> /\ Tick) =>
       \A i \in Slots :
         (controllers'[i] # Undefined /\ Calls(trace', i, "update") # { })
         => LET pose == gamepads[i].pose
            IN IF /\ pose.obj = "object"
                  /\ pose.position = "null"
                  /\ pose.orientation \notin { "null", "undefined" }
               THEN ArmUpdated(i)'
               ELSE /\ ~ArmUpdated(i)'
                    /\ controllers'[i].armModel =
                         IF controllers[i] # Undefined THEN controllers[i].armModel
                         ELSE Undefined ]_vars

\* C28 (as the spec has it): an adapter that has an arm model has dof 3
C28_ArmModelOnlyThreeDof ==
  \A i \in Slots :
    (controllers[i] # Undefined /\ controllers[i].armModel # Undefined)
    => controllers[i].dof = 3

\* an adapter of six degrees of freedom was updated through an arm model
C28_Witness ==
  /\ ArmUpdated(0)
  /\ controllers[0].dof = 6
  /\ controllers[0].matrix = "armModel"
  /\ gamepads[0].pose.hasPosition
  /\ gamepads[0].pose.position = "null"

\* a pose object, orientation or position that is null or undefined
Missing(v) == v \in { "null", "undefined" }

\* C29: on a tick whose pose object is missing, or whose orientation and
\* position are each null or undefined, an adapter that has posed is
\* disconnected; one that has not keeps its position, rotation, local
\* transform, arm model, hasPosed and visible, gets no 'disconnected' and
\* raises no fault
C29_AbsentPoseStops ==
  [][(trace' # << >> /\ Tick) =>
       \A i \in Slots :
         (/\ controllers[i] # Undefined
          /\ IsHandle(gamepads[i])
          /\ \/ gamepads[i].pose.obj # "object"
             \/ Missing(gamepads[i].pose.orientation) /\ Missing(gamepads[i].pose.position))
         => IF controllers[i].hasPosed
            THEN /\ controllers'[i] = Undefined
                 /\ Cardinality(Notes(trace', i, "disconnected")) = 1
            ELSE /\ controllers'[i] # Undefined
                 /\ controllers'[i].position = controllers[i].position
                 /\ controllers'[i].quaternion = controllers[i].quaternion
                 /\ controllers'[i].matrix = controllers[i].matrix
                 /\ controllers'[i].armModel = controllers[i].armModel
                 /\ controllers'[i].hasPosed = controllers[i].hasPosed
                 /\ controllers'[i].visible = controllers[i].visible
                 /\ Notes(trace', i, "disconnected") = { }
                 /\ Notes(trace', i, "throw") = { } ]_vars

\* C30: every adapter has the channel named '' and no two of its channels
\* have the same name; no step removes or renames a channel of an adapter;
\* setVibe( intensity ) gives the channel named '' that intensity and leaves
\* every other channel as it is
C30_UnnamedChannel ==
  [][\A i \in Slots :
       /\ controllers'[i] # Undefined
          => LET new == controllers'[i].vibeChannels
             IN /\ Cardinality(Named(controllers'[i], "")) = 1
                /\ \A k \in 1 .. Len(new) : \A j \in 1 .. Len(new) :
                     new[k].name = new[j].name => k = j
       /\ (controllers[i] # Undefined /\ controllers'[i] # Undefined)
          => LET old == controllers[i].vibeChannels
                 new == controllers'[i].vibeChannels
             IN /\ Len(new) >= Len(old)
                /\ \A k \in 1 .. Len(old) : new[k].name = old[k].name
       /\ \A v \in { 5 } :
            SetVibe(i, v)
            => LET old == controllers[i].vibeChannels
                   new == controllers'[i].vibeChannels
               IN /\ Len(new) = Len(old)
                  /\ \A k \in 1 .. Len(old) :
                       IF old[k].name = "" THEN new[k].intensity = v
                       ELSE new[k] = old[k] ]_vars

\* setVibe( 0.5 ) was called on an adapter that has the channels 'x' and 'y'
C30_Witness ==
  /\ controllers[0] # Undefined
  /\ trace = << >>
  /\ Len(controllers[0].vibeChannels) = 3
  /\ controllers[0].vibeChannels[1] = [ name |-> "", intensity |-> 5, queue |-> << >> ]
  /\ \E k \in Named(controllers[0], "x") : controllers[0].vibeChannels[k].intensity = 6
  /\ \E k \in Named(controllers[0], "y") : controllers[0].vibeChannels[k].intensity = 7

\* C22: a call of clear sends one 'disconnected' to every adapter that was
\* registered and none to any other slot, and leaves every slot of the
\* registry absent; a tick that finds the registry empty, as the first one
\* after clear does, gives every slot in which the host reports a device a
\* new adapter and one 'vr controller connected'
C22_ClearThenReconnect ==
  [][/\ Clear
        => /\ \A i \in Slots :
                /\ controllers'[i] = Undefined
                /\ Cardinality(Notes(trace', i, "disconnected")) =
                     IF controllers[i] # Undefined THEN 1 ELSE 0
           /\ \A k \in 1 .. Len(trace') : trace'[k].type = "disconnected"
     /\ (/\ trace' # << >> /\ Tick /\ hasGetGamepads
         /\ \A i \in Slots : controllers[i] = Undefined)
        => \A i \in Slots :
             IF IsHandle(gamepads[i])
             THEN /\ controllers'[i] # Undefined
                  /\ controllers'[i].name = gamepads[i].id
                  /\ Cardinality(Notes(trace', i, "vr controller connected")) = 1
             ELSE /\ controllers'[i] = Undefined
                  /\ Notes(trace', i, "vr controller connected") = { } ]_vars

\* clear was called while both slots had an adapter: each got its
\* 'disconnected' and the registry is empty while the host still reports both
\* devices
C22_Witness ==
  /\ Len(trace) = 2
  /\ trace[1].type = "disconnected" /\ trace[1].slot = 0
  /\ trace[2].type = "disconnected" /\ trace[2].slot = 1
  /\ \A i \in Slots : controllers[i] = Undefined
  /\ IsHandle(gamepads[0]) /\ IsHandle(gamepads[1])

\* C23: after every poll, as after construction, a thumbstick pair is held
\* as (0,0) when both raw magnitudes are within the threshold and as the raw
\* pair otherwise
C23_PairedDeadZone ==
  \A i \in Slots :
    (IsHandle(gamepads[i]) /\ controllers[i] # Undefined /\ Calls(trace, i, "update") # { })
    => \A k \in 1 .. Len(controllers[i].axes) :
         LET axis == controllers[i].axes[k]
             raw == RawPair(i, axis)
         IN axis.isThumbstick => axis.value = PairRule(raw[1], raw[2])

\* C24: after every poll each direction of a thumbstick pair is pressed
\* exactly when the raw value of its axis is beyond the press threshold:
\* right and down above +0.6, left and up below -0.6
C24_DirectionsFollowRaw ==
  \A i \in Slots :
    (IsHandle(gamepads[i]) /\ controllers[i] # Undefined /\ Calls(trace, i, "update") # { })
    => \A k \in 1 .. Len(controllers[i].axes) :
         LET axis == controllers[i].axes[k]
             raw == RawPair(i, axis)
         IN axis.isThumbstick
            => /\ axis.dpad.right = (raw[1] > axisPressThreshold)
               /\ axis.dpad.left = (raw[1] < 0 - axisPressThreshold)
               /\ axis.dpad.down = (raw[2] > axisPressThreshold)
               /\ axis.dpad.up = (raw[2] < 0 - axisPressThreshold)

\* the notifications of slot i under the given name, in the order of the trace
RECURSIVE NotesOf(_, _, _)
NotesOf(tr, i, name) ==
  IF tr = << >> THEN << >>
  ELSE IF Head(tr).slot = i /\ Head(tr).name = name /\ Head(tr).type \in ChangeTypes
       THEN << [ type |-> Head(tr).type, data |-> Head(tr).data ] >> \o NotesOf(Tail(tr), i, name)
       ELSE NotesOf(Tail(tr), i, name)

\* what a poll has to tell about a button whose record is old and whose
\* device reports raw: one entry for each property that differs
ButtonNews(old, raw) ==
  (IF old.value # raw.value
   THEN << [ type |-> "value changed", data |-> << raw.value >> ] >> ELSE << >>)
  \o (IF old.isTouched # raw.touched
      THEN << [ type |-> IF raw.touched THEN "touch began" ELSE "touch ended",
                data |-> << >> ] >> ELSE << >>)
  \o (IF old.isPressed # raw.pressed
      THEN << [ type |-> IF raw.pressed THEN "press began" ELSE "press ended",
                data |-> << >> ] >> ELSE << >>)

\* C25: in a poll every button is notified under its name of exactly the
\* properties among value, touch and press that differ from its record, and
\* its record takes the device's value, touch and press; a notification is
\* followed at once by the same notification under 'primary' exactly when the
\* button is the primary one, and 'primary' is notified of nothing else
C25_ButtonProperties ==
  [][(trace' # << >> /\ Tick) =>
       \A i \in Slots :
         (IsHandle(gamepads[i]) /\ controllers[i] # Undefined /\ controllers'[i] # Undefined)
         => /\ \A k \in 1 .. Len(controllers[i].buttons) :
                 LET old == controllers[i].buttons[k]
                     raw == gamepads[i].buttons[k]
                 IN /\ NotesOf(trace', i, old.name) = ButtonNews(old, raw)
                    /\ controllers'[i].buttons[k] =
                         [ old EXCEPT !.value = raw.value, !.isTouched = raw.touched,
                                      !.isPressed = raw.pressed ]
                    /\ old.isPrimary
                       => NotesOf(trace', i, "primary") = ButtonNews(old, raw)
                    /\ \A n \in 1 .. Len(trace') :
                         (/\ trace'[n].slot = i /\ trace'[n].name = old.name
                          /\ trace'[n].type \in ChangeTypes)
                         => IF old.isPrimary
                            THEN /\ n < Len(trace')
                                 /\ trace'[n + 1] = [ trace'[n] EXCEPT !.name = "primary" ]
                            ELSE n = Len(trace') \/ trace'[n + 1].name # "primary"
            /\ (\A k \in 1 .. Len(controllers[i].buttons) : ~controllers[i].buttons[k].isPrimary)
               => NotesOf(trace', i, "primary") = << >> ]_vars

\* a poll that found only the touch of the primary button changed: 'trigger
\* touch began', then 'primary touch began', and nothing about its value or
\* press
C25_Witness ==
  /\ controllers[0] # Undefined
  /\ controllers[0].buttons[2].isPrimary
  /\ NotesOf(trace, 0, controllers[0].buttons[2].name)
       = << [ type |-> "touch began", data |-> << >> ] >>
  /\ NotesOf(trace, 0, "primary") = << [ type |-> "touch began", data |-> << >> ] >>
  /\ controllers[0].buttons[2].value = 0
  /\ ~controllers[0].buttons[2].isPressed
  /\ NotesOf(trace, 0, controllers[0].buttons[1].name)
       = << [ type |-> "press ended", data |-> << >> ] >>

\* the places in the trace of the notifications of slot i of the given type
PlacesOf(tr, i, type) ==
  { n \in 1 .. Len(tr) : tr[n].slot = i /\ tr[n].type = type }

\* C26: a poll that finds the handle's hand different from the hand last seen
\* dispatches exactly one 'hand changed' carrying the new hand, ahead of every
\* axis and button notification of that poll, and getHand returns the new
\* hand afterwards; a poll that finds the same hand dispatches none
C26_HandChanged ==
  [][(trace' # << >> /\ Tick) =>
       \A i \in Slots :
         (IsHandle(gamepads[i]) /\ controllers[i] # Undefined /\ controllers'[i] # Undefined)
         => /\ getHand(controllers'[i]) = gamepads[i].hand
            /\ IF getHand(controllers[i]) # gamepads[i].hand
               THEN /\ Cardinality(PlacesOf(trace', i, "hand changed")) = 1
                    /\ \A n \in PlacesOf(trace', i, "hand changed") :
                         /\ trace'[n].data = << gamepads[i].hand >>
                         /\ \A k \in 1 .. Len(trace') :
                              (trace'[k].slot = i /\ trace'[k].type \in ChangeTypes \ { "hand changed" })
                              => n < k
               ELSE PlacesOf(trace', i, "hand changed") = { } ]_vars

\* a poll found the hand changed to 'left' together with a button and told
\* of the hand first
C26_Witness ==
  /\ controllers[0] # Undefined
  /\ getHand(controllers[0]) = "left"
  /\ PlacesOf(trace, 0, "hand changed") # { }
  /\ \E k \in 1 .. Len(trace) :
       /\ trace[k].slot = 0
       /\ trace[k].type = "press began"
       /\ \A n \in PlacesOf(trace, 0, "hand changed") : n < k

\* the queue is in the order of its times
Ordered(queue) ==
  \A a, b \in 1 .. Len(queue) : a < b => queue[a][1] <= queue[b][1]

\* the command's time is past at t
Past(cmd, t) == cmd[1] < t

\* the commands of the queue whose time is past at t
PastOf(queue, t) == { n \in 1 .. Len(queue) : Past(queue[n], t) }

\* the queue without its first n commands
Rest(queue, n) == [ j \in 1 .. (Len(queue) - n) |-> queue[j + n] ]

\* C31: renderVibes at time t takes from every channel queued in the order
\* of its times exactly the commands whose time is past at t, which are the
\* first ones of the queue; the channel's intensity becomes that of the last
\* command taken, or stays when none is taken; the commands for t or later
\* stay queued in their order
C31_RenderRemovesElapsed ==
  [][\A i \in Slots :
       Renders(i)
       => \A k \in 1 .. Len(controllers[i].vibeChannels) :
            LET before == controllers[i].vibeChannels[k]
                after == controllers'[i].vibeChannels[k]
                past == PastOf(before.queue, now)
                n == Cardinality(past)
            IN Ordered(before.queue)
               => /\ past = 1 .. n
                  /\ after.queue = Rest(before.queue, n)
                  /\ \A j \in 1 .. Len(after.queue) : ~Past(after.queue[j], now)
                  /\ after.intensity = IF n = 0 THEN before.intensity ELSE before.queue[n][2]
                  /\ after.name = before.name
  ]_vars

\* a render 50 ms after setVibe( 'x' ).set( 0.7 ).wait( 0 ).set( 0.3 )
\* .wait( 100 ).set( 0 ): both commands of the first moment are taken, the
\* channel is at 0.3 and the command for 50 ms later is still queued
C31_Witness ==
  /\ controllers[0] # Undefined
  /\ Calls(trace, 0, "renderVibes") # { }
  /\ \E k \in 1 .. Len(controllers[0].vibeChannels) :
       controllers[0].vibeChannels[k]
         = [ name |-> "x", intensity |-> 3, queue |-> << << now + 50, 0 >> >> ]

\* the adapter of slot 0 drives an actuator at the constant level v and
\* commanded its last pulse, of that level, at time last
Vibrating(v, last) ==
  /\ IsHandle(gamepads[0])
  /\ gamepads[0].hapticActuators > 0
  /\ controllers[0] # Undefined
  /\ SumIntensity(controllers[0].vibeChannels) = v
  /\ controllers[0].prior = v
  /\ controllers[0].lastCommanded = Num(last)

PulseTimes == { t \in 0 .. MaxTime : t % (VIBE_TIME_MAX \div 8) = 0 }

\* a frame that finds the vibration at level v with its last pulse at time
\* last: it issues the next pulse exactly when it comes more than 2500 ms
\* after the last one, and then less than 5000 ms after it
SustainStep(v, last) ==
  (Vibrating(v, last) /\ now' # now /\ controllers'[0] # Undefined)
  => /\ now - last <= VIBE_TIME_MAX \div 2
     /\ IF now' - last > VIBE_TIME_MAX \div 2
        THEN /\ \E n \in Notes(trace', 0, "pulse") : trace'[n].data = << v, VIBE_TIME_MAX >>
             /\ Cardinality(Notes(trace', 0, "pulse")) = 1
             /\ now' - last < VIBE_TIME_MAX
             /\ controllers'[0].prior = v
             /\ controllers'[0].lastCommanded = Num(now')
        ELSE /\ Notes(trace', 0, "pulse") = { }
             /\ Vibrating(v, last)'

\* C32: while an actuator is driven at one constant non-zero level and frames
\* keep coming less than 2500 ms apart, the first frame more than 2500 ms
\* after a pulse issues the next pulse, before the 5000 ms of the last one
\* are over; and as long as the clock has room for that frame, a later pulse
\* follows every pulse
C32_SustainedVibration ==
  /\ [][\A v \in SustainLevels \ { 0 }, last \in PulseTimes : SustainStep(v, last)]_vars
  /\ \A v \in SustainLevels \ { 0 }, last \in PulseTimes :
       (Vibrating(v, last) /\ now > VIBE_TIME_MAX \div 4
          /\ last + VIBE_TIME_MAX \div 2 + VIBE_TIME_MAX \div 8 <= MaxTime)
       ~> (\E later \in PulseTimes : later > last /\ Vibrating(v, later))

\* the vibration at 0.5 was set in the first 1250 ms; a frame later than
\* its first pulse can be has just renewed the pulse
C32_Witness ==
  /\ now > VIBE_TIME_MAX \div 4 + 3 * (VIBE_TIME_MAX \div 8)
  /\ Vibrating(5, now)
  /\ \E n \in Notes(trace, 0, "pulse") : trace[n].data = << 5, VIBE_TIME_MAX >>

\* slot i holds an adapter made from the handle the host reports there, and
\* the catalog has no entry for the handle's identifier
Unmatched(i) ==
  /\ IsHandle(gamepads[i])
  /\ controllers[i] # Undefined
  /\ controllers[i].name = gamepads[i].id
  /\ getSupportedById(gamepads[i].id) = NoSchema

\* C33: the adapter of a handle without a catalog entry and with n raw axes
\* has n \div 2 pairs; pair k is named axes_k and reads the raw axes 2k - 2
\* and 2k - 1, so that no pair refers to an axis the handle does not have
C33_GenericPairs ==
  \A i \in Slots :
    Unmatched(i)
    => LET n == Len(gamepads[i].axes)
           axes == controllers[i].axes
       IN /\ Len(axes) = n \div 2
          /\ \A k \in 1 .. Len(axes) :
               /\ axes[k].name = "axes_" \o ToString(k)
               /\ axes[k].indexes = << 2 * k - 2, 2 * k - 1 >>
               /\ axes[k].indexes[2] < n

\* the name the claim gives record k (counted from 1) of a handle's buttons
ClaimedButtonName(schema, k) ==
  IF schema # NoSchema /\ k <= Len(schema.buttons)
  THEN schema.buttons[k]
  ELSE "button_" \o ToString(k - 1)

\* C34: a tick that finds a handle with n buttons in a slot without an
\* adapter leaves an adapter there with n button records, record i named by
\* the schema where the schema names index i and 'button_i' otherwise
C34_ButtonNaming ==
  [][(trace' # << >> /\ Tick) =>
       \A i \in Slots :
         (IsHandle(gamepads[i]) /\ controllers[i] = Undefined)
         => /\ controllers'[i] # Undefined
            /\ Len(controllers'[i].buttons) = Len(gamepads[i].buttons)
            /\ \A k \in 1 .. Len(gamepads[i].buttons) :
                 controllers'[i].buttons[k].name
                   = ClaimedButtonName(getSupportedById(gamepads[i].id), k) ]_vars

\* C35: in every step a slot is told 'vr controller connected' exactly when
\* it goes from absent to holding an adapter and 'disconnected' exactly when
\* it goes from holding an adapter to absent, once and never both, so that
\* the two alternate per slot; a registered adapter holds the handle whose
\* index is its slot
C35_ConnectDisconnectAlternate ==
  /\ [](\A k \in Slots : controllers[k] # Undefined => controllers[k].gamepad = k)
  /\ [][\A k \in Slots :
         LET connected == Notes(trace', k, "vr controller connected")
             disconnected == Notes(trace', k, "disconnected")
         IN /\ Cardinality(connected) + Cardinality(disconnected) <= 1
            /\ connected # { }
               <=> (controllers[k] = Undefined /\ controllers'[k] # Undefined)
            /\ disconnected # { }
               <=> (controllers[k] # Undefined /\ controllers'[k] = Undefined)
            /\ (connected = { } /\ disconnected = { })
               => (controllers[k] = Undefined <=> controllers'[k] = Undefined) ]_vars

\* one tick told slot 0 of its new adapter and the adapter of slot 1, whose
\* device the host no longer reports, of its disconnection
C35_Witness ==
  /\ Notes(trace, 0, "vr controller connected") # { }
  /\ Notes(trace, 1, "disconnected") # { }
  /\ controllers[0] # Undefined
  /\ controllers[0].gamepad = 0
  /\ controllers[1] = Undefined

\* the last operation was a tick in which the adapter of slot k disconnected
\* although the host reported its handle, and the host still reports that
\* handle without a pose
PoweredOff(k) ==
  /\ Calls(trace, 0, "THREE.VRController.update") # { }
  /\ Notes(trace, k, "disconnected") # { }
  /\ IsHandle(gamepads[k])
  /\ PoseAbsent(gamepads[k].pose)
  /\ controllers[k] = Undefined

\* C36: the tick after an adapter disconnected for want of a pose, with the
\* handle still reported and still without a pose, announces no connection
\* and makes no adapter for that slot
C36_NoReconnectWhilePoweredOff ==
  [][(trace' # << >> /\ Tick) =>
       \A k \in Slots :
         PoweredOff(k)
         => /\ Notes(trace', k, "vr controller connected") = { }
            /\ controllers'[k] = Undefined ]_vars

Opposite(d) ==
  CASE d = "left" -> "right" [] d = "right" -> "left"
    [] d = "up" -> "down" [] d = "down" -> "up"

\* no thumbstick pair of a registered adapter has two opposite directions
\* pressed
NoOppositePressed ==
  \A i \in Slots :
    controllers[i] # Undefined
    => \A k \in 1 .. Len(controllers[i].axes) :
         controllers[i].axes[k].isThumbstick
         => \A d \in { "left", "up" } :
              ~(controllers[i].axes[k].dpad[d] /\ controllers[i].axes[k].dpad[Opposite(d)])

\* the places in the trace where slot i is told type about the named thing
Told(tr, i, type, name) ==
  { n \in 1 .. Len(tr) : tr[n].slot = i /\ tr[n].type = type /\ tr[n].name = name }

\* C37: opposite directions of a thumbstick pair are never pressed together,
\* and a poll that tells of the press of a direction whose opposite was
\* pressed has told of the end of the opposite's press before
C37_OppositeDirections ==
  /\ []NoOppositePressed
  /\ [][(trace' # << >> /\ Tick) =>
         \A i \in Slots :
           (controllers[i] # Undefined /\ controllers'[i] # Undefined)
           => \A k \in 1 .. Len(controllers[i].axes) :
                controllers[i].axes[k].isThumbstick
                => \A d \in { "left", "right", "up", "down" } :
                     \A n \in Told(trace', i, "press began", controllers[i].axes[k].name \o " " \o d) :
                       controllers[i].axes[k].dpad[Opposite(d)]
                       => \E e \in Told(trace', i, "press ended",
                                        controllers[i].axes[k].name \o " " \o Opposite(d)) :
                            e < n ]_vars

\* C38: the queue of every channel of every adapter is in the order of its
\* commands' times, whichever schedulers the application holds and calls
C38_QueuesOrdered ==
  \A i \in Slots :
    controllers[i] # Undefined
    => \A k \in 1 .. Len(controllers[i].vibeChannels) :
         Ordered(controllers[i].vibeChannels[k].queue)

\* the pairs, or the buttons, of a collection that carry the name
Having(coll, name) == { k \in 1 .. Len(coll) : coll[k].name = name }

\* what the claim has a getter return for a collection: all of it without an
\* argument, the member of that name, the member at that index
Wanted(coll, arg) ==
  CASE arg.kind = "undefined" -> { coll }
    [] arg.kind = "string" -> { coll[k] : k \in Having(coll, arg.name) }
    [] arg.kind = "number" -> { coll[k] : k \in { arg.index + 1 } \cap (1 .. Len(coll)) }

\* the last call of getButton returned what the claim says: the primary
\* button for 'primary' when there is one, else the button of that name or
\* at that index
ButtonGot(n) ==
  LET c == controllers[trace[n].slot]
      arg == trace[n].data[1]
  IN /\ trace[n].type = "return"
     /\ IF arg = [ kind |-> "string", name |-> "primary", index |-> 0 ]
        THEN \A k \in Primaries(c) : trace[n].data[2] = c.buttons[k]
        ELSE arg.kind # "undefined"
             => \A b \in Wanted(c.buttons, arg) : trace[n].data[2] = b

Loaded == DeckSlides \ deck.data

\* C40: whenever no enable timer is pending after a deck.change, the loaded
\* iframes are those of the preload set of the slide last moved to, and
\* window.iframes lists exactly them, each once
C40_LoadedIsPreloadSet ==
  (deck.timers = << >> /\ deck.at \in DeckSlides)
  => /\ Loaded = Preload(deck.at)
     /\ { deck.iframes[n] : n \in 1 .. Len(deck.iframes) } = Loaded
     /\ Len(deck.iframes) = Cardinality(Loaded)

====
